---- MODULE Spec2Model ----
(***************************************************************************)
(* Oculizer: audio-driven DMX light control.  A model of the scene         *)
(* manager (profile compatibility and fallback), the prediction smoother,  *)
(* the audio callbacks with the bounded prediction queue, and the toggle   *)
(* mode override state machine.                                            *)
(***************************************************************************)
EXTENDS Integers, Sequences, FiniteSets, TLC

\* ------------------------------------------------------------------ bounds
\* Largest number of entries of a profile's fallback mapping that Init draws.
MaxFallbackEntries == 1
\* Number of entries of the fallback mappings drawn where chains are looked at.
MaxChainEntries == 2
\* Largest scene cache size (--scene-cache-size) that Init draws.
MaxCacheSize == 3
\* Number of predictions the worker publishes in a run of the model.
MaxPredictions == 4
\* Number of audio frames the callbacks offer to the prediction queue.
MaxFrames == 150
\* Number of frames the prediction worker takes off the queue.
MaxDrain == 2
\* Number of frames the callbacks offer while the whole controller runs.
MaxLifeFrames == 2
\* Number of predictions published while the whole controller runs.
MaxLifePredictions == 1
\* Number of times the prediction thread dies unexpectedly.
MaxWorkerDeaths == 1
\* Number of prediction threads that can be created in one run.
MaxWorkerStarts == 4
\* Number of restarts of the prediction thread that fail.
MaxRestartFailures == 1
\* Serial write failures in a row that are borne before rendering is suspended.
FailureThreshold == 2
\* Number of ticks of the control loop.
MaxOutputTicks == 12
\* The count of DMX frames sent is kept modulo this.
DmxCounterWrap == 2
\* Number of pieces in which the serial port takes the bytes of one message.
WireChunksPerFrame == 2
\* Number of frames handed to the DMX controller in a run of the model.
MaxWireFrames == 4
\* Number of passes of the rendering loop.
MaxTicks == 2
\* Number of predictions published while the rendering loop is looked at.
MaxTickPredictions == 2
\* Largest level of the audio feature that drives the brightness.
MaxAudioLevel == 1

\* -------------------------------------------------------------- constants
\* prediction_audio_queue = queue.Queue(maxsize=100)
PredictionQueueMaxsize == 100
\* Channels per fixture type: dimmer, rgb, strobe, laser, Rockville864.
DimmerChannels == 1
RgbChannels == 6
StrobeChannels == 2
LaserChannels == 10
RockvilleChannels == 39
\* "brightness_range": [0, 255]
MaxChannelValue == 255
\* Enttec USB DMX Pro message: start byte 0x7E and end byte 0xE7.
START_BYTE == 126
END_BYTE == 231
\* DMX data: 512 channels + start code.
DmxChannels == 512
DMX_START_CODE == 0
\* The command (label) of the "send DMX packet" message.
SEND_DMX_LABEL == 6

\* ------------------------------------------------------------ scene data
\* "No profile info provided" (SceneManager built without available_fixtures).
None == "None"

Rgbs == {"rgb1", "rgb2", "rgb3", "rgb4", "rgb5", "rgb6", "rgb7", "rgb8"}
Rockvilles == {"rockville1", "rockville2", "rockville3", "rockville4"}
Placeholders == {"placeholder1", "placeholder2"}
Others == {"laser", "orb", "strobe", "pinspot"}

\* The fixtures a profile declares (given = FALSE: no profile information,
\* available_fixtures is None).
ProfileFixtures(profile) ==
    CASE profile = "mobile" -> [given |-> TRUE, names |-> Rockvilles \cup Placeholders]
      [] profile = "garage2025" -> [given |-> TRUE, names |-> Rgbs \cup Rockvilles \cup Others]
      [] OTHER -> [given |-> FALSE, names |-> {}]

Profiles == {"mobile", "garage2025", "no_profile"}

\* The scenes of the scenes/ directory whose fixtures the documentation gives,
\* and the default scene 'party', whose fixture references Init draws freely.
DocScenes == {"bass_hopper_rainbow", "supernova", "disco", "orb_cycle", "hopping_lights"}
Scenes == DocScenes \cup {"party"}

\* The fixtures the scene 'party' may reference.
PartyFixtures == {"rgb1", "rockville1"}

NoOrchestrator == {}

\* scene_data of a documented scene: its light entries and the target_lights
\* of its orchestrator block (empty when it has none).
DocSceneData(s) ==
    CASE s = "bass_hopper_rainbow" -> [lights |-> Rgbs, target_lights |-> NoOrchestrator]
      [] s = "supernova" -> [lights |-> Rockvilles, target_lights |-> NoOrchestrator]
      [] s = "disco" -> [lights |-> Rgbs \cup Rockvilles \cup {"pinspot"}, target_lights |-> NoOrchestrator]
      [] s = "orb_cycle" -> [lights |-> {"orb"}, target_lights |-> NoOrchestrator]
      [] OTHER -> [lights |-> {}, target_lights |-> {"rgb1", "rgb2", "rgb3", "rgb4"}]

VARIABLES
    scenes,              \* SceneManager.scenes: scene name -> scene_data
    profile_name,        \* SceneManager.profile_name
    available_fixtures,  \* SceneManager.available_fixtures (names; not given = None)
    fallback_mappings,   \* SceneManager.fallback_mappings: scene -> fallback
    scene_compatibility, \* SceneManager.scene_compatibility: scene -> bool
    current_scene,       \* name of SceneManager.current_scene
    requested_scene,     \* the scene name of the last set_scene call
    last_log,            \* what the last set_scene call logged
    scene_cache_size,        \* Oculizer scene cache size (history capacity)
    scene_cache,             \* Oculizer.scene_cache: recent predicted scenes
    latest_prediction,       \* Oculizer.latest_prediction: last raw scene
    current_predicted_scene, \* Oculizer.current_predicted_scene
    current_cluster,         \* Oculizer.current_cluster
    prediction_count,        \* Oculizer.prediction_count
    raw_predictions,         \* every raw prediction published so far, in order
    running,                 \* Oculizer.running (threading.Event) is set
    prediction_audio_queue,  \* Oculizer.prediction_audio_queue
    scene_prediction_enabled, \* Oculizer.scene_prediction_enabled
    scene_prediction_device, \* Oculizer.scene_prediction_device (None: single stream)
    prediction_thread_alive, \* Oculizer.prediction_thread.is_alive()
    pred_cb_pc,              \* where prediction_audio_callback stands
    main_cb_pc,              \* where audio_callback stands
    pred_cb_result,          \* how the last prediction_audio_callback call ended
    main_cb_result,          \* how the last audio_callback call ended
    frames_offered,          \* frames a callback took to the queue's put_nowait
    frames_enqueued,         \* frames put_nowait accepted
    frames_dropped,          \* queue.Full exceptions caught (frames dropped)
    frames_consumed,         \* frames the worker took off the queue
    override_active,         \* run_toggle_mode: is manual override enabled?
    override_scene,          \* run_toggle_mode: which scene is manually selected?
    current_scene_name,      \* run_toggle_mode: the scene shown as active
    predicted_scene,         \* run_toggle_mode: the prediction read by the display logic
    ui_mode,                 \* oculize.py: "oculizer" or "toggle" presentation
    main_pc,                 \* where the main (UI) thread stands
    stop_calls,              \* number of Oculizer.stop() calls begun
    test_mode,               \* Oculizer.test_mode (--test)
    prediction_stream,       \* Oculizer.prediction_stream: None, "open" or "closed"
    dmx_controller,          \* Oculizer.dmx_controller: None, "connected" or "closed"
    oculizer_pc,             \* where the Oculizer thread (run) stands
    worker_pc,               \* where the prediction thread stands
    log,                     \* warnings and errors logged so far
    prediction_stream_released, \* times the prediction stream was released
    dmx_released,            \* times the DMX connection was released
    dmx_frames_sent,         \* DMX commands sent, modulo DmxCounterWrap
    worker_deaths,           \* unexpected deaths of the prediction thread
    channel_frame,           \* the 512 channel values handed to the codec
    encoded,                 \* the bytes of the message encoded from channel_frame
    decoded,                 \* the channel values decoded from the message
    codec_pc,                \* "frame", "encoded" or "decoded"
    write_lock,              \* the controller's write lock: its holder or None
    writer_pc,               \* writer -> "idle", "acquire" or "write"
    writer_frame,            \* writer -> number of the frame it is writing
    writer_pos,              \* writer -> pieces of its frame already on the wire
    wire,                    \* the pieces on the wire, in order: <<frame, piece>>
    frames_submitted,        \* frames handed to the controller so far
    restart_failures,        \* restarts of the prediction thread that failed
    prediction_lock,         \* Oculizer.prediction_lock: its holder or None
    publisher_pc,            \* where the prediction thread stands around the lock
    reader_pc,               \* where a reader of the prediction state stands
    reader_snapshot,         \* the prediction fields as the reader has read them
    published,               \* the prediction fields as they stood after each publication
    consecutive_failures,    \* serial writes that failed in a row
    rendering_suspended,     \* automatic rendering is suspended
    output_loop,             \* the control loop: "running" or "terminated"
    writes_attempted,        \* serial writes attempted so far
    output_ticks,            \* ticks of the control loop so far
    output_pc,               \* the control loop: "tick", "write" or "failed"
    closer_pc,               \* where stop() and run()'s finally stand in closing the stream
    stream_stop_calls,       \* calls of stop() on the prediction stream object
    stream_close_calls,      \* calls of close() on the prediction stream object
    worker_threads,          \* every prediction thread ever created: its state
    prediction_thread,       \* self.prediction_thread: the thread last started, 0 for None
    run_pc,                  \* where run() stands in starting streams and threads
    tick_pc,                 \* the rendering loop: "sleep", "render" or "write"
    tick_count,              \* passes of the rendering loop begun
    tick_scene,              \* the scene read at the start of the pass
    tick_audio,              \* the audio feature read at the start of the pass
    tick_predictions,        \* prediction_count at the start of the pass
    audio_snapshot,          \* the latest audio feature of the FFT stream
    tick_frame,              \* the channel frame built in the pass
    handed                   \* the last frame handed to the DMX controller

sceneVars == <<scenes, profile_name, available_fixtures, fallback_mappings,
               scene_compatibility, current_scene, requested_scene, last_log>>

predictionVars == <<scene_cache_size, scene_cache, latest_prediction,
                    current_predicted_scene, current_cluster, prediction_count,
                    raw_predictions>>

audioVars == <<running, prediction_audio_queue, scene_prediction_enabled,
               scene_prediction_device, prediction_thread_alive, pred_cb_pc,
               main_cb_pc, pred_cb_result, main_cb_result, frames_offered,
               frames_enqueued, frames_dropped, frames_consumed>>

toggleVars == <<override_active, override_scene, current_scene_name, predicted_scene>>

lifeVars == <<ui_mode, main_pc, stop_calls, test_mode, prediction_stream,
              dmx_controller, oculizer_pc, worker_pc, log,
              prediction_stream_released, dmx_released, dmx_frames_sent,
              worker_deaths, restart_failures>>

deviceVars == <<channel_frame, encoded, decoded, codec_pc, write_lock, writer_pc,
                writer_frame, writer_pos, wire, frames_submitted>>

lockVars == <<prediction_lock, publisher_pc, reader_pc, reader_snapshot, published>>

outputVars == <<consecutive_failures, rendering_suspended, output_loop, writes_attempted,
                output_ticks, output_pc>>

threadVars == <<closer_pc, stream_stop_calls, stream_close_calls, worker_threads,
                prediction_thread, run_pc>>

tickVars == <<tick_pc, tick_count, tick_scene, tick_audio, tick_predictions,
              audio_snapshot, tick_frame, handed>>

vars == <<sceneVars, predictionVars, audioVars, toggleVars, lifeVars, deviceVars,
          lockVars, outputVars, threadVars, tickVars>>

\* ------------------------------------------------------------ SceneManager

\* _get_scene_fixtures ignoring the orchestrator block.
GetSceneFixtures_LightsOnly(scene_data) == scene_data.lights

\* SceneManager._get_scene_fixtures: lights + orchestrator targets.
GetSceneFixtures(scene_data) == scene_data.lights \cup scene_data.target_lights

\* A compatibility test that asks for every fixture of the scene to be in
\* the profile.
IsSceneCompatible_AllFixtures(scene_data, fixtures) ==
    IF ~fixtures.given
      THEN TRUE
      ELSE GetSceneFixtures(scene_data) \subseteq fixtures.names

\* SceneManager._is_scene_compatible: at least one fixture of the profile is
\* used; without profile information every scene is compatible.
IsSceneCompatible(scene_data, fixtures) ==
    IF ~fixtures.given
      THEN TRUE
      ELSE GetSceneFixtures(scene_data) \cap fixtures.names # {}

\* SceneManager._analyze_scene_compatibility: every scene, once at startup.
AnalyzeSceneCompatibility(all_scenes, fixtures) ==
    [s \in Scenes |-> IsSceneCompatible(all_scenes[s], fixtures)]

\* SceneManager.get_fallback_scene: the mapping's entry, or None.
GetFallbackScene(scene_name) ==
    IF scene_name \in DOMAIN fallback_mappings
      THEN fallback_mappings[scene_name]
      ELSE None

\* The scene set_scene applied before fallbacks were forced: the fallback only
\* when the requested scene is incompatible.
EffectiveScene_CompatibilityBased(scene_name, apply_fallback) ==
    IF apply_fallback /\ GetFallbackScene(scene_name) # None
         /\ ~scene_compatibility[scene_name]
      THEN GetFallbackScene(scene_name)
      ELSE scene_name

\* An incompatible scene without fallback is refused: the current scene stays.
EffectiveScene_RefuseIncompatible(scene_name, apply_fallback) ==
    IF apply_fallback /\ GetFallbackScene(scene_name) # None
      THEN GetFallbackScene(scene_name)
      ELSE IF scene_compatibility[scene_name] THEN scene_name ELSE current_scene

\* A set_scene that follows the mapping a second time: A -> B -> C gives C.
EffectiveScene_Chained(scene_name, apply_fallback) ==
    IF apply_fallback /\ GetFallbackScene(scene_name) # None
      THEN IF GetFallbackScene(GetFallbackScene(scene_name)) # None
             THEN GetFallbackScene(GetFallbackScene(scene_name))
             ELSE GetFallbackScene(scene_name)
      ELSE scene_name

\* The scene set_scene applies: a fallback entry is always applied, whatever
\* the compatibility; a scene without entry is applied as requested.
EffectiveScene(scene_name, apply_fallback) ==
    IF apply_fallback /\ GetFallbackScene(scene_name) # None
      THEN GetFallbackScene(scene_name)
      ELSE scene_name

\* What set_scene logs: forced replacement (scene compatible), compatibility
\* replacement (scene incompatible), or the no-fallback warning.
SetSceneLog(scene_name, apply_fallback) ==
    IF apply_fallback /\ GetFallbackScene(scene_name) # None
      THEN IF scene_compatibility[scene_name]
             THEN "forced_replacement"
             ELSE "compatibility_replacement"
      ELSE IF ~scene_compatibility[scene_name]
             THEN "no_fallback_warning"
             ELSE "none"

\* SceneManager.set_scene(scene_name, apply_fallback=True).
SetScene(scene_name, apply_fallback) ==
    /\ current_scene' = EffectiveScene(scene_name, apply_fallback)
    /\ last_log' = SetSceneLog(scene_name, apply_fallback)
    /\ requested_scene' = scene_name
    /\ UNCHANGED <<scenes, profile_name, available_fixtures, fallback_mappings,
                   scene_compatibility>>

\* Oculizer.change_scene: a scene change from a prediction or a manual
\* selection; fallbacks are applied (apply_fallback keeps its default).
ChangeScene ==
    \E scene_name \in Scenes : SetScene(scene_name, TRUE)

\* The fallback mappings a profile_fallbacks.json may hold for the profile:
\* scene -> scene, at most MaxFallbackEntries entries.
FallbackMaps ==
    UNION {[D -> Scenes] : D \in {E \in SUBSET Scenes : Cardinality(E) <= MaxFallbackEntries}}

\* The fallback mappings with exactly MaxChainEntries entries: among them the
\* chains (A -> B and B -> C) and the cycles (A -> B and B -> A).
FallbackChainMaps ==
    UNION {[D -> Scenes] : D \in {E \in SUBSET Scenes : Cardinality(E) = MaxChainEntries}}

\* The scenes/ directory as loaded: the documented scenes and party.
SceneSets ==
    {[s \in Scenes |-> IF s = "party"
                         THEN [lights |-> l, target_lights |-> t]
                         ELSE DocSceneData(s)] :
        l \in SUBSET PartyFixtures, t \in SUBSET PartyFixtures}

\* SceneManager(scenes_directory, profile_name, available_fixtures): scenes
\* loaded, fallback mappings loaded, compatibility analysed; 'party' default.
SceneInit ==
    /\ scenes \in SceneSets
    /\ profile_name \in Profiles
    /\ available_fixtures = ProfileFixtures(profile_name)
    /\ fallback_mappings \in FallbackMaps
    /\ scene_compatibility = AnalyzeSceneCompatibility(scenes, available_fixtures)
    /\ current_scene = "party"
    /\ requested_scene = None
    /\ last_log = "none"

\* ------------------------------------------------------ scene prediction

\* The cluster ids of the k-means clustering and the scene each maps to.
Clusters == {0, 1, 2}

\* current_cluster before the first prediction (Python's None).
NoCluster == -1

ClusterToScene(cluster) ==
    CASE cluster = 0 -> "party"
      [] cluster = 1 -> "disco"
      [] OTHER -> "supernova"

\* How often scene s occurs in the cache.
RECURSIVE CacheCount(_, _)
CacheCount(cache, s) ==
    IF cache = <<>>
      THEN 0
      ELSE (IF Head(cache) = s THEN 1 ELSE 0) + CacheCount(Tail(cache), s)

\* No smoothing at all: only the newest entry of the cache.
ModeCandidates_Latest(cache) == {cache[Len(cache)]}

\* The mode of the recent predictions: the scenes that occur most often in
\* the cache.
ModeCandidates(cache) ==
    {s \in {cache[i] : i \in 1..Len(cache)} :
        \A i \in 1..Len(cache) : CacheCount(cache, cache[i]) <= CacheCount(cache, s)}

\* The position of the newest occurrence of s in the cache.
LastOccurrence(cache, s) ==
    CHOOSE i \in 1..Len(cache) :
        cache[i] = s /\ \A j \in (i + 1)..Len(cache) : cache[j] # s

\* The smoothed scene: among the most frequent scenes, the one that occurred
\* most recently.
MajorityVote(cache) ==
    CHOOSE s \in ModeCandidates(cache) :
        \A t \in ModeCandidates(cache) :
            LastOccurrence(cache, t) <= LastOccurrence(cache, s)

\* Insert into the bounded history: the oldest record is evicted when full.
CacheInsert(cache, s, capacity) ==
    IF Len(cache) < capacity
      THEN Append(cache, s)
      ELSE Append(Tail(cache), s)

\* The prediction worker publishes one prediction under prediction_lock: the
\* raw scene of the cluster, the cache, the smoothed scene and the counters.
PublishPrediction(cluster) ==
    /\ prediction_count < MaxPredictions
    /\ current_cluster' = cluster
    /\ latest_prediction' = ClusterToScene(cluster)
    /\ scene_cache' = CacheInsert(scene_cache, ClusterToScene(cluster), scene_cache_size)
    /\ current_predicted_scene' = MajorityVote(scene_cache')
    /\ prediction_count' = prediction_count + 1
    /\ raw_predictions' = Append(raw_predictions, ClusterToScene(cluster))
    /\ UNCHANGED scene_cache_size

\* _init_scene_prediction: empty cache, nothing predicted yet.
PredictionInit ==
    /\ scene_cache_size \in 1..MaxCacheSize
    /\ scene_cache = <<>>
    /\ latest_prediction = None
    /\ current_predicted_scene = None
    /\ current_cluster = NoCluster
    /\ prediction_count = 0
    /\ raw_predictions = <<>>

\* ------------------------------------------- audio callbacks and the queue

\* One block of mono audio samples, as a callback copies it into the queue.
AudioFrame == "frame"

\* A callback that does not look at the running flag.
CallbackReturnsEarly_NoCheck == FALSE

\* "if not self.running.is_set(): return" at the top of both callbacks.
CallbackReturnsEarly == ~running

\* queue.Queue() with no maxsize: never full.
QueueFull_NoMaxsize(q) == FALSE

\* queue.Queue(maxsize=100).full()
\* A queue that takes one frame more than its maxsize before it is full.
QueueFull_OffByOne(q) == Len(q) > PredictionQueueMaxsize

QueueFull(q) == Len(q) >= PredictionQueueMaxsize

\* The blocking put() the callbacks used before: it waits while the queue is
\* full.
QueuePut_Blocking ==
    /\ ~QueueFull(prediction_audio_queue)
    /\ prediction_audio_queue' = Append(prediction_audio_queue, AudioFrame)
    /\ frames_enqueued' = frames_enqueued + 1
    /\ UNCHANGED frames_dropped

\* try: prediction_audio_queue.put_nowait(data.copy())
\* except queue.Full: pass      (the frame is dropped)
QueuePutNowait ==
    IF QueueFull(prediction_audio_queue)
      THEN /\ frames_dropped' = frames_dropped + 1
           /\ UNCHANGED <<prediction_audio_queue, frames_enqueued>>
      ELSE /\ prediction_audio_queue' = Append(prediction_audio_queue, AudioFrame)
           /\ frames_enqueued' = frames_enqueued + 1
           /\ UNCHANGED frames_dropped

\* prediction_audio_callback is invoked by the prediction stream (dual-stream
\* mode): return at once when not running, else process the audio.
PredictionCallbackEnter ==
    /\ scene_prediction_device # None
    /\ pred_cb_pc = "idle"
    /\ IF CallbackReturnsEarly
         THEN /\ pred_cb_result' = "returned_early"
              /\ UNCHANGED <<pred_cb_pc, frames_offered>>
         ELSE /\ frames_offered < MaxFrames
              /\ pred_cb_pc' = "put"
              /\ frames_offered' = frames_offered + 1
              /\ UNCHANGED pred_cb_result
    /\ UNCHANGED <<running, prediction_audio_queue, scene_prediction_enabled,
                   scene_prediction_device, prediction_thread_alive, main_cb_pc,
                   main_cb_result, frames_enqueued, frames_dropped, frames_consumed>>

\* prediction_audio_callback: the non-blocking put, then return.
PredictionCallbackPut ==
    /\ pred_cb_pc = "put"
    /\ QueuePutNowait
    /\ pred_cb_pc' = "idle"
    /\ pred_cb_result' = IF QueueFull(prediction_audio_queue) THEN "dropped" ELSE "enqueued"
    /\ UNCHANGED <<running, scene_prediction_enabled, scene_prediction_device,
                   prediction_thread_alive, main_cb_pc, main_cb_result,
                   frames_offered, frames_consumed>>

\* The audio_callback before the fix: it never feeds the prediction queue.
MainCallbackFeeds_Never == FALSE

\* "if self.scene_prediction_enabled and self.scene_prediction_device is None:"
MainCallbackFeeds == scene_prediction_enabled /\ scene_prediction_device = None

\* audio_callback is invoked by the FFT stream: return at once when not
\* running; in single-stream mode go on to feed the prediction queue.
AudioCallbackEnter ==
    /\ main_cb_pc = "idle"
    /\ IF CallbackReturnsEarly
         THEN /\ main_cb_result' = "returned_early"
              /\ UNCHANGED <<main_cb_pc, frames_offered>>
         ELSE IF MainCallbackFeeds
                THEN /\ frames_offered < MaxFrames
                     /\ main_cb_pc' = "put"
                     /\ frames_offered' = frames_offered + 1
                     /\ UNCHANGED main_cb_result
                ELSE /\ main_cb_result' = "not_fed"
                     /\ UNCHANGED <<main_cb_pc, frames_offered>>
    /\ UNCHANGED <<running, prediction_audio_queue, scene_prediction_enabled,
                   scene_prediction_device, prediction_thread_alive, pred_cb_pc,
                   pred_cb_result, frames_enqueued, frames_dropped, frames_consumed>>

\* audio_callback, single-stream mode: the non-blocking put, then return.
AudioCallbackPut ==
    /\ main_cb_pc = "put"
    /\ QueuePutNowait
    /\ main_cb_pc' = "idle"
    /\ main_cb_result' = IF QueueFull(prediction_audio_queue) THEN "dropped" ELSE "enqueued"
    /\ UNCHANGED <<running, scene_prediction_enabled, scene_prediction_device,
                   prediction_thread_alive, pred_cb_pc, pred_cb_result,
                   frames_offered, frames_consumed>>

\* prediction_processing_thread: queue.get(timeout=0.5) returns a frame.
WorkerGet ==
    /\ running
    /\ prediction_thread_alive
    /\ prediction_audio_queue # <<>>
    /\ frames_consumed < MaxDrain
    /\ prediction_audio_queue' = Tail(prediction_audio_queue)
    /\ frames_consumed' = frames_consumed + 1
    /\ UNCHANGED <<running, scene_prediction_enabled, scene_prediction_device,
                   prediction_thread_alive, pred_cb_pc, main_cb_pc, pred_cb_result,
                   main_cb_result, frames_offered, frames_enqueued, frames_dropped>>

\* The prediction thread dies unexpectedly.
WorkerDies ==
    /\ prediction_thread_alive
    /\ prediction_thread_alive' = FALSE
    /\ UNCHANGED <<running, prediction_audio_queue, scene_prediction_enabled,
                   scene_prediction_device, pred_cb_pc, main_cb_pc, pred_cb_result,
                   main_cb_result, frames_offered, frames_enqueued, frames_dropped,
                   frames_consumed>>

\* Oculizer.stop(): self.running.clear()
StopClearRunning ==
    /\ running
    /\ running' = FALSE
    /\ UNCHANGED <<prediction_audio_queue, scene_prediction_enabled,
                   scene_prediction_device, prediction_thread_alive, pred_cb_pc,
                   main_cb_pc, pred_cb_result, main_cb_result, frames_offered,
                   frames_enqueued, frames_dropped, frames_consumed>>

\* Oculizer.__init__ and run(): the queue is empty, the streams and the
\* prediction thread are started, running is set.
AudioInit ==
    /\ running = TRUE
    /\ prediction_audio_queue = <<>>
    /\ scene_prediction_enabled \in BOOLEAN
    /\ scene_prediction_device \in {None, "cable_output"}
    /\ prediction_thread_alive = scene_prediction_enabled
    /\ pred_cb_pc = "idle"
    /\ main_cb_pc = "idle"
    /\ pred_cb_result = "none"
    /\ main_cb_result = "none"
    /\ frames_offered = 0
    /\ frames_enqueued = 0
    /\ frames_dropped = 0
    /\ frames_consumed = 0

\* ------------------------------------------------------------ toggle mode

\* A display loop that follows the prediction whatever the override flag says.
FollowsPrediction_IgnoreOverride(prediction) == prediction # None

\* "if not override_active and predicted_scene:" in the display logic.
FollowsPrediction(prediction) == ~override_active /\ prediction # None

\* A selection handler that leaves the override state as it is.
SelectionOverride_Unchanged(new_scene) ==
    [active |-> override_active, scene |-> override_scene]

\* "override_active = True; override_scene = new_scene" on a manual selection.
SelectionOverride(new_scene) == [active |-> TRUE, scene |-> new_scene]

\* The old toggle loop: the prediction is read but never followed.
ToggleDisplayTick_NoFollow ==
    /\ predicted_scene' = current_predicted_scene
    /\ UNCHANGED <<current_scene_name, sceneVars, override_active, override_scene>>

\* Display logic of one loop iteration: read the live prediction and, in
\* automatic mode, follow it (active_scene = predicted_scene;
\* change_to_predicted_scene()).
ToggleDisplayTick ==
    /\ predicted_scene' = current_predicted_scene
    /\ IF FollowsPrediction(current_predicted_scene)
         THEN /\ current_scene_name' = current_predicted_scene
              /\ SetScene(current_predicted_scene, TRUE)
         ELSE UNCHANGED <<current_scene_name, sceneVars>>
    /\ UNCHANGED <<override_active, override_scene>>

\* A resume that never switches the scene.
ResumeSwitches_Never(prediction) == FALSE

\* "if predicted_scene:" in the branch of Ctrl+O that disables the override.
ResumeSwitches(prediction) == prediction # None

\* A handler that pins the predicted scene instead of the active one.
PinnedScene_Prediction == predicted_scene

\* Ctrl+O, enabling: override_scene = current_scene_name.
PinnedScene == current_scene_name

\* A handler that leaves the override scene in place when it disables the
\* override.
OverrideSceneAfterDisable_Kept == override_scene

\* Ctrl+O, disabling: override_scene = None.
OverrideSceneAfterDisable == None

\* Ctrl+O (event 15): leave override and switch to the predicted scene, or
\* enter override pinned on the scene shown as active.
ToggleOverride ==
    IF override_active
      THEN /\ override_active' = FALSE
           /\ override_scene' = OverrideSceneAfterDisable
           /\ IF ResumeSwitches(predicted_scene)
                THEN SetScene(predicted_scene, TRUE)
                ELSE UNCHANGED sceneVars
           /\ UNCHANGED <<current_scene_name, predicted_scene>>
      ELSE /\ override_active' = TRUE
           /\ override_scene' = PinnedScene
           /\ UNCHANGED <<current_scene_name, predicted_scene, sceneVars>>

\* Enter or mouse click on a scene of the grid: change to it and enable the
\* override. The excerpt of the handler does not show whether it also
\* records the scene in current_scene_name, so both are allowed.
SelectScene(new_scene) ==
    /\ SetScene(new_scene, TRUE)
    /\ override_active' = SelectionOverride(new_scene).active
    /\ override_scene' = SelectionOverride(new_scene).scene
    /\ current_scene_name' \in {current_scene_name, new_scene}
    /\ UNCHANGED predicted_scene

\* Scene Change Logic: the scene name the loop holds as active.
ToggleActiveScene ==
    IF override_active THEN override_scene ELSE current_scene_name

\* Entering toggle mode: following predictions, nothing pinned.
ToggleInit ==
    /\ override_active = FALSE
    /\ override_scene = None
    /\ current_scene_name = current_scene
    /\ predicted_scene = None

\* ------------------------------------------- threads, streams and shutdown

\* State after Oculizer.__init__ and the start of run(): the streams are
\* open, the DMX controller is connected unless in test mode, the Oculizer
\* thread and the prediction thread are running.
LifeInit ==
    /\ ui_mode = "oculizer"
    /\ main_pc = "ui"
    /\ stop_calls = 0
    /\ test_mode \in BOOLEAN
    /\ prediction_stream = IF scene_prediction_device # None THEN "open" ELSE None
    /\ dmx_controller = IF test_mode THEN None ELSE "connected"
    /\ oculizer_pc = "top"
    /\ worker_pc = "wait"
    /\ log = {}
    /\ prediction_stream_released = 0
    /\ dmx_released = 0
    /\ dmx_frames_sent = 0
    /\ worker_deaths = 0
    /\ restart_failures = 0

\* An error met by stop() while releasing a resource, told apart by whether
\* it was the first call of stop() or a later one.
StopError(resource) ==
    [error |-> "Error in stop()", resource |-> resource, first_call |-> stop_calls = 1]

\* A warning or an error of a thread, logged outside stop()'s releases.
LogLine(message) ==
    [error |-> message, resource |-> None, first_call |-> TRUE]

\* A stream handle that stop() and the finally block leave in place after
\* closing the stream.
StreamHandleAfterClose_Kept == "closed"

\* "self.prediction_stream = None" after stop() and close().
StreamHandleAfterClose == None

\* A close() of the DMX controller that releases the connection whatever its
\* state.
\* A build whose DMX paths do not look at the test-mode flag.
TestModeSkipsDmx_Never == FALSE

\* Test mode: process_audio_and_lights returns early, turn_off_all_lights
\* skips, stop() skips the DMX cleanup.
TestModeSkipsDmx == test_mode

EnttecClose_Unguarded(connection) ==
    [state |-> "closed", released |-> TRUE, error |-> connection # "connected"]

\* EnttecProController.close(): closes the serial connection if it is open;
\* closing a closed connection does nothing.
EnttecClose(connection) ==
    [state |-> "closed", released |-> connection = "connected", error |-> FALSE]

\* 't' in oculizer mode: run_toggle_mode() starts, following predictions.
EnterToggleMode ==
    /\ main_pc = "ui"
    /\ ui_mode = "oculizer"
    /\ ui_mode' = "toggle"
    /\ override_active' = FALSE
    /\ override_scene' = None
    /\ current_scene_name' = current_scene
    /\ predicted_scene' = None
    /\ UNCHANGED <<sceneVars, predictionVars, audioVars, main_pc, stop_calls, test_mode, restart_failures, deviceVars, lockVars, outputVars, threadVars, tickVars,
                   prediction_stream, dmx_controller, oculizer_pc, worker_pc, log,
                   prediction_stream_released, dmx_released, dmx_frames_sent,
                   worker_deaths>>

\* Ctrl+T or 't' in toggle mode: run_toggle_mode() returns and its override
\* state is gone.
ReturnToOculizerMode ==
    /\ main_pc = "ui"
    /\ ui_mode = "toggle"
    /\ ui_mode' = "oculizer"
    /\ override_active' = FALSE
    /\ override_scene' = None
    /\ UNCHANGED <<current_scene_name, predicted_scene>>
    /\ UNCHANGED <<sceneVars, predictionVars, audioVars, main_pc, stop_calls, test_mode, restart_failures, deviceVars, lockVars, outputVars, threadVars, tickVars,
                   prediction_stream, dmx_controller, oculizer_pc, worker_pc, log,
                   prediction_stream_released, dmx_released, dmx_frames_sent,
                   worker_deaths>>

\* Ctrl+O in toggle mode.
ToggleModeCtrlO ==
    /\ main_pc = "ui"
    /\ ui_mode = "toggle"
    /\ ToggleOverride
    /\ UNCHANGED <<predictionVars, audioVars, ui_mode, main_pc, stop_calls, test_mode, restart_failures, deviceVars, lockVars, outputVars, threadVars, tickVars,
                   prediction_stream, dmx_controller, oculizer_pc, worker_pc, log,
                   prediction_stream_released, dmx_released, dmx_frames_sent,
                   worker_deaths>>

\* 'q' in oculizer mode, Ctrl+Q in toggle mode: the UI loop ends.
QuitKey ==
    /\ main_pc = "ui"
    /\ main_pc' = "turn_off"
    /\ UNCHANGED <<sceneVars, predictionVars, toggleVars, audioVars, ui_mode,
                   stop_calls, test_mode, restart_failures, deviceVars, lockVars, outputVars, threadVars, tickVars, prediction_stream, dmx_controller,
                   oculizer_pc, worker_pc, log, prediction_stream_released,
                   dmx_released, dmx_frames_sent, worker_deaths>>

\* turn_off_all_lights(): skipped in test mode, else one DMX command that
\* zeroes every channel.
TurnOffAllLights ==
    /\ main_pc = "turn_off"
    /\ main_pc' = "stop_clear"
    /\ IF TestModeSkipsDmx
         THEN UNCHANGED <<dmx_frames_sent, log>>
         ELSE IF dmx_controller = "connected"
                THEN /\ dmx_frames_sent' = (dmx_frames_sent + 1) % DmxCounterWrap
                     /\ UNCHANGED log
                ELSE /\ log' = log \cup {LogLine("Error turning off lights")}
                     /\ UNCHANGED dmx_frames_sent
    /\ UNCHANGED <<sceneVars, predictionVars, toggleVars, audioVars, ui_mode,
                   stop_calls, test_mode, restart_failures, deviceVars, lockVars, outputVars, threadVars, tickVars, prediction_stream, dmx_controller,
                   oculizer_pc, worker_pc, prediction_stream_released,
                   dmx_released, worker_deaths>>

\* Oculizer.stop(): self.running.clear()
\* A stop() in the order clear, close the stream, join, close the DMX
\* controller.
StopStepAfter_StreamFirst(step) ==
    CASE step = "clear" -> "stop_stream"
      [] step = "stream" -> "stop_join"
      [] step = "join" -> "stop_dmx"

\* The order of stop(): clear the flag, join the prediction thread, close the
\* prediction stream, close the DMX controller.
StopStepAfter(step) ==
    CASE step = "clear" -> "stop_join"
      [] step = "join" -> "stop_stream"
      [] step = "stream" -> "stop_dmx"

\* A stop() that clears the handle also when stop() or close() raised.
StreamHandleAfterFault_Cleared(handle) == None

\* stop() or close() raised: the assignment after them is not reached.
StreamHandleAfterFault(handle) == handle

\* What the except branches log when the stream's stop() or close() raises.
StreamFault(where) ==
    [error |-> "Stream stop() or close() raised", resource |-> where,
     first_call |-> stop_calls = 1]

StopBegin ==
    /\ main_pc = "stop_clear"
    /\ running' = FALSE
    /\ stop_calls' = stop_calls + 1
    /\ main_pc' = StopStepAfter("clear")
    /\ UNCHANGED <<sceneVars, predictionVars, toggleVars, prediction_audio_queue,
                   scene_prediction_enabled, scene_prediction_device,
                   prediction_thread_alive, pred_cb_pc, main_cb_pc, pred_cb_result,
                   main_cb_result, frames_offered, frames_enqueued, frames_dropped,
                   frames_consumed, ui_mode, test_mode, restart_failures, deviceVars, lockVars, outputVars, threadVars, tickVars, prediction_stream,
                   dmx_controller, oculizer_pc, worker_pc, log,
                   prediction_stream_released, dmx_released, dmx_frames_sent,
                   worker_deaths>>

\* A stop() that goes on without waiting for the prediction thread.
StopJoinPrediction_NoWait ==
    /\ main_pc = "stop_join"
    /\ main_pc' = "stop_stream"
    /\ UNCHANGED <<sceneVars, predictionVars, toggleVars, audioVars, ui_mode,
                   stop_calls, test_mode, restart_failures, deviceVars, lockVars, outputVars, threadVars, tickVars, prediction_stream, dmx_controller,
                   oculizer_pc, worker_pc, log, prediction_stream_released,
                   dmx_released, dmx_frames_sent, worker_deaths>>

\* Oculizer.stop(): prediction_thread.join(timeout=2.0) when the thread is
\* alive. The join returns when the thread has ended; it times out, with a
\* warning, on a thread that hangs.
StopJoinPrediction ==
    /\ main_pc = "stop_join"
    /\ ~prediction_thread_alive \/ worker_pc = "hung"
    /\ log' = IF prediction_thread_alive
                THEN log \cup {LogLine("Prediction thread did not stop within timeout")}
                ELSE log
    /\ main_pc' = StopStepAfter("join")
    /\ UNCHANGED <<sceneVars, predictionVars, toggleVars, audioVars, ui_mode,
                   stop_calls, test_mode, restart_failures, deviceVars, lockVars, outputVars, threadVars, tickVars, prediction_stream, dmx_controller,
                   oculizer_pc, worker_pc, prediction_stream_released, dmx_released,
                   dmx_frames_sent, worker_deaths>>

\* Oculizer.stop(): if self.prediction_stream:
StopCheckStream ==
    /\ main_pc = "stop_stream"
    /\ main_pc' = IF prediction_stream # None THEN "stop_close" ELSE StopStepAfter("stream")
    /\ UNCHANGED <<sceneVars, predictionVars, toggleVars, audioVars, ui_mode,
                   stop_calls, test_mode, restart_failures, deviceVars, lockVars, outputVars, threadVars, tickVars, prediction_stream, dmx_controller,
                   oculizer_pc, worker_pc, log, prediction_stream_released,
                   dmx_released, dmx_frames_sent, worker_deaths>>

\* Oculizer.stop(): try: stop(); close(); self.prediction_stream = None
\* except Exception: logger.error(...). Stopping a stream that is closed, or
\* a handle another thread has set to None, raises.
StopCloseStream ==
    /\ main_pc = "stop_close"
    /\ IF prediction_stream = "open"
         THEN \/ /\ prediction_stream' = StreamHandleAfterClose
                 /\ prediction_stream_released' = prediction_stream_released + 1
                 /\ UNCHANGED log
              \/ /\ log' = log \cup {StreamFault("stop()")}
                 /\ prediction_stream' = StreamHandleAfterFault(prediction_stream)
                 /\ UNCHANGED prediction_stream_released
         ELSE /\ log' = log \cup {StopError("prediction stream")}
              /\ UNCHANGED <<prediction_stream, prediction_stream_released>>
    /\ main_pc' = StopStepAfter("stream")
    /\ UNCHANGED <<sceneVars, predictionVars, toggleVars, audioVars, ui_mode,
                   stop_calls, test_mode, restart_failures, deviceVars, lockVars, outputVars, threadVars, tickVars, dmx_controller, oculizer_pc, worker_pc,
                   dmx_released, dmx_frames_sent, worker_deaths>>

\* Oculizer.stop(): dmx_controller.close(), skipped in test mode and when
\* there is no controller. The first stop() is followed by the join of the
\* Oculizer thread.
StopCloseDmx ==
    /\ main_pc = "stop_dmx"
    /\ IF ~TestModeSkipsDmx /\ dmx_controller # None
         THEN /\ dmx_controller' = EnttecClose(dmx_controller).state
              /\ dmx_released' = dmx_released
                                   + (IF EnttecClose(dmx_controller).released THEN 1 ELSE 0)
              /\ log' = IF EnttecClose(dmx_controller).error
                          THEN log \cup {StopError("DMX controller")}
                          ELSE log
         ELSE UNCHANGED <<dmx_controller, dmx_released, log>>
    /\ main_pc' = IF stop_calls = 1 THEN "join" ELSE "exited"
    /\ UNCHANGED <<sceneVars, predictionVars, toggleVars, audioVars, ui_mode,
                   stop_calls, test_mode, restart_failures, deviceVars, lockVars, outputVars, threadVars, tickVars, prediction_stream, oculizer_pc, worker_pc,
                   prediction_stream_released, dmx_frames_sent, worker_deaths>>

\* The join of oculize.py before the fix: self.oculizer.join(), no timeout.
JoinOculizer_NoTimeout ==
    /\ main_pc = "join"
    /\ oculizer_pc = "dead"
    /\ main_pc' = "cleanup"
    /\ UNCHANGED <<sceneVars, predictionVars, toggleVars, audioVars, ui_mode,
                   stop_calls, test_mode, restart_failures, deviceVars, lockVars, outputVars, threadVars, tickVars, prediction_stream, dmx_controller,
                   oculizer_pc, worker_pc, log, prediction_stream_released,
                   dmx_released, dmx_frames_sent, worker_deaths>>

\* oculize.py: self.oculizer.join(timeout=3.0); a warning if the thread is
\* still alive.
JoinOculizer ==
    /\ main_pc = "join"
    /\ oculizer_pc \in {"dead", "hung"}
    /\ log' = IF oculizer_pc = "hung"
                THEN log \cup {LogLine("Oculizer thread did not stop within timeout")}
                ELSE log
    /\ main_pc' = "cleanup"
    /\ UNCHANGED <<sceneVars, predictionVars, toggleVars, audioVars, ui_mode,
                   stop_calls, test_mode, restart_failures, deviceVars, lockVars, outputVars, threadVars, tickVars, prediction_stream, dmx_controller,
                   oculizer_pc, worker_pc, prediction_stream_released, dmx_released,
                   dmx_frames_sent, worker_deaths>>

\* Cleanup of the caller stops the controller once more.
StopAgain ==
    /\ main_pc = "cleanup"
    /\ main_pc' = "stop_clear"
    /\ UNCHANGED <<sceneVars, predictionVars, toggleVars, audioVars, ui_mode,
                   stop_calls, test_mode, restart_failures, deviceVars, lockVars, outputVars, threadVars, tickVars, prediction_stream, dmx_controller,
                   oculizer_pc, worker_pc, log, prediction_stream_released,
                   dmx_released, dmx_frames_sent, worker_deaths>>

\* The program leaves.
Exit ==
    /\ main_pc = "cleanup"
    /\ main_pc' = "exited"
    /\ UNCHANGED <<sceneVars, predictionVars, toggleVars, audioVars, ui_mode,
                   stop_calls, test_mode, restart_failures, deviceVars, lockVars, outputVars, threadVars, tickVars, prediction_stream, dmx_controller,
                   oculizer_pc, worker_pc, log, prediction_stream_released,
                   dmx_released, dmx_frames_sent, worker_deaths>>

\* A health check that starts a thread while the last one is still alive.
HealthCheckRestarts_AliveToo == scene_prediction_enabled /\ running

\* A health check that never restarts the prediction thread.
HealthCheckRestarts_Never == FALSE

\* update_scene_prediction(): the prediction thread has died while the
\* controller is running with scene prediction enabled.
HealthCheckRestarts ==
    scene_prediction_enabled /\ running /\ ~prediction_thread_alive

\* A prediction thread that does not come back from a failed inference.
InferenceFailureNext_Stuck == "hung"

\* After a failed inference the prediction thread waits for the next chunk.
InferenceFailureNext == "wait"

\* A health check that blanks the predicted scene when the thread is lost.
SceneAfterWorkerLoss_Reset(scene) == None

\* The death of the prediction thread and the health check leave the
\* published prediction as it is.
SceneAfterWorkerLoss(scene) == scene

\* Oculizer.run(): the loop test, while self.running.is_set().
OculizerLoopTop ==
    /\ oculizer_pc = "top"
    /\ oculizer_pc' = IF running THEN "lights" ELSE "finally_check"
    /\ UNCHANGED <<sceneVars, predictionVars, toggleVars, audioVars, ui_mode, main_pc,
                   stop_calls, test_mode, restart_failures, deviceVars, lockVars, outputVars, threadVars, tickVars, prediction_stream, dmx_controller, worker_pc,
                   log, prediction_stream_released, dmx_released, dmx_frames_sent,
                   worker_deaths>>

\* process_audio_and_lights(): returns early in test mode; else sends the
\* frame of the current scene to the DMX controller, which fails with a logged
\* error once the connection is closed.
ProcessAudioAndLights ==
    /\ oculizer_pc = "lights"
    /\ oculizer_pc' = "health"
    /\ IF TestModeSkipsDmx
         THEN UNCHANGED <<dmx_frames_sent, log>>
         ELSE IF dmx_controller = "connected"
                THEN /\ dmx_frames_sent' = (dmx_frames_sent + 1) % DmxCounterWrap
                     /\ UNCHANGED log
                ELSE /\ log' = log \cup {LogLine("Error sending DMX frame")}
                     /\ UNCHANGED dmx_frames_sent
    /\ UNCHANGED <<sceneVars, predictionVars, toggleVars, audioVars, ui_mode, main_pc,
                   stop_calls, test_mode, restart_failures, deviceVars, lockVars, outputVars, threadVars, tickVars, prediction_stream, dmx_controller, worker_pc,
                   prediction_stream_released, dmx_released, worker_deaths>>

\* The Oculizer thread gets stuck in its audio processing and never returns.
OculizerHangs ==
    /\ oculizer_pc = "lights"
    /\ oculizer_pc' = "hung"
    /\ UNCHANGED <<sceneVars, predictionVars, toggleVars, audioVars, ui_mode, main_pc,
                   stop_calls, test_mode, restart_failures, deviceVars, lockVars, outputVars, threadVars, tickVars, prediction_stream, dmx_controller, worker_pc,
                   log, prediction_stream_released, dmx_released, dmx_frames_sent,
                   worker_deaths>>

\* update_scene_prediction(): checks the health of the prediction thread and
\* starts a new one when it has died.
UpdateScenePrediction ==
    /\ oculizer_pc = "health"
    /\ oculizer_pc' = "top"
    /\ IF HealthCheckRestarts
         THEN /\ prediction_thread_alive' = TRUE
              /\ worker_pc' = "wait"
              /\ current_predicted_scene' = SceneAfterWorkerLoss(current_predicted_scene)
         ELSE UNCHANGED <<prediction_thread_alive, worker_pc, current_predicted_scene>>
    /\ UNCHANGED <<sceneVars, scene_cache_size, scene_cache, latest_prediction,
                   current_cluster, prediction_count, raw_predictions,
                   toggleVars, running,
                   prediction_audio_queue, scene_prediction_enabled,
                   scene_prediction_device, pred_cb_pc, main_cb_pc, pred_cb_result,
                   main_cb_result, frames_offered, frames_enqueued, frames_dropped,
                   frames_consumed, ui_mode, main_pc, stop_calls, test_mode, restart_failures, deviceVars, lockVars, outputVars, threadVars, tickVars,
                   prediction_stream, dmx_controller, log, prediction_stream_released,
                   dmx_released, dmx_frames_sent, worker_deaths>>

\* update_scene_prediction(): the thread is dead and the start of a new
\* thread fails; the failure is logged and the loop goes on.
RestartFails ==
    /\ oculizer_pc = "health"
    /\ HealthCheckRestarts
    /\ restart_failures < MaxRestartFailures
    /\ restart_failures' = restart_failures + 1
    /\ log' = log \cup {LogLine("Error restarting prediction thread")}
    /\ oculizer_pc' = "top"
    /\ current_predicted_scene' = SceneAfterWorkerLoss(current_predicted_scene)
    /\ UNCHANGED <<sceneVars, scene_cache_size, scene_cache, latest_prediction,
                   current_cluster, prediction_count, raw_predictions,
                   toggleVars, audioVars, ui_mode, main_pc, stop_calls, test_mode,
                   deviceVars, lockVars, outputVars, threadVars, tickVars, prediction_stream,
                   dmx_controller, worker_pc, prediction_stream_released,
                   dmx_released, dmx_frames_sent, worker_deaths>>

\* run(), finally: if self.prediction_stream:
FinallyCheckStream ==
    /\ oculizer_pc = "finally_check"
    /\ oculizer_pc' = IF prediction_stream # None THEN "finally_close" ELSE "dead"
    /\ UNCHANGED <<sceneVars, predictionVars, toggleVars, audioVars, ui_mode, main_pc,
                   stop_calls, test_mode, restart_failures, deviceVars, lockVars, outputVars, threadVars, tickVars, prediction_stream, dmx_controller, worker_pc,
                   log, prediction_stream_released, dmx_released, dmx_frames_sent,
                   worker_deaths>>

\* run(), finally: try: stop(); close(); self.prediction_stream = None
\* except Exception: print(...). The thread ends.
FinallyCloseStream ==
    /\ oculizer_pc = "finally_close"
    /\ IF prediction_stream = "open"
         THEN \/ /\ prediction_stream' = StreamHandleAfterClose
                 /\ prediction_stream_released' = prediction_stream_released + 1
                 /\ UNCHANGED log
              \/ /\ log' = log \cup {StreamFault("finally")}
                 /\ prediction_stream' = StreamHandleAfterFault(prediction_stream)
                 /\ UNCHANGED prediction_stream_released
         ELSE /\ log' = log \cup {LogLine("Error closing prediction stream in finally")}
              /\ UNCHANGED <<prediction_stream, prediction_stream_released>>
    /\ oculizer_pc' = "dead"
    /\ UNCHANGED <<sceneVars, predictionVars, toggleVars, audioVars, ui_mode, main_pc,
                   stop_calls, test_mode, restart_failures, deviceVars, lockVars, outputVars, threadVars, tickVars, dmx_controller, worker_pc, dmx_released,
                   dmx_frames_sent, worker_deaths>>

\* prediction_processing_thread: the loop test fails once running is clear
\* and the thread ends.
\* A queue.get() without timeout: the wait ends only when a frame arrives.
QueueWaitReturns_OnlyOnFrame == prediction_audio_queue # <<>>

\* queue.get(timeout=0.5): the wait ends after half a second at the latest.
QueueWaitReturns == TRUE

WorkerLoopExit ==
    /\ prediction_thread_alive
    /\ worker_pc = "wait"
    /\ QueueWaitReturns
    /\ ~running
    /\ prediction_thread_alive' = FALSE
    /\ UNCHANGED <<sceneVars, predictionVars, toggleVars, running,
                   prediction_audio_queue, scene_prediction_enabled,
                   scene_prediction_device, pred_cb_pc, main_cb_pc, pred_cb_result,
                   main_cb_result, frames_offered, frames_enqueued, frames_dropped,
                   frames_consumed, ui_mode, main_pc, stop_calls, test_mode, restart_failures, deviceVars, lockVars, outputVars, threadVars, tickVars,
                   prediction_stream, dmx_controller, oculizer_pc, worker_pc, log,
                   prediction_stream_released, dmx_released, dmx_frames_sent,
                   worker_deaths>>

\* prediction_processing_thread: a frame arrives from the queue and the
\* inference on the chunk starts.
WorkerTakeChunk ==
    /\ worker_pc = "wait"
    /\ WorkerGet
    /\ worker_pc' = "infer"
    /\ UNCHANGED <<sceneVars, predictionVars, toggleVars, ui_mode, main_pc,
                   stop_calls, test_mode, restart_failures, deviceVars, lockVars, outputVars, threadVars, tickVars, prediction_stream, dmx_controller,
                   oculizer_pc, log, prediction_stream_released, dmx_released,
                   dmx_frames_sent, worker_deaths>>

\* prediction_processing_thread: the inference returns a cluster and the
\* prediction is published under prediction_lock.
WorkerPublish ==
    /\ prediction_thread_alive
    /\ worker_pc = "infer"
    /\ prediction_count < MaxLifePredictions
    /\ \E cluster \in Clusters : PublishPrediction(cluster)
    /\ worker_pc' = "wait"
    /\ UNCHANGED <<sceneVars, toggleVars, audioVars, ui_mode, main_pc, stop_calls,
                   test_mode, restart_failures, deviceVars, lockVars, outputVars, threadVars, tickVars, prediction_stream, dmx_controller, oculizer_pc, log,
                   prediction_stream_released, dmx_released, dmx_frames_sent,
                   worker_deaths>>

\* prediction_processing_thread: the inference raises or returns an invalid
\* result; the error is logged and the loop goes on with the next chunk.
WorkerInferenceFails ==
    /\ prediction_thread_alive
    /\ worker_pc = "infer"
    /\ log' = log \cup {LogLine("Error in prediction processing")}
    /\ worker_pc' = InferenceFailureNext
    /\ UNCHANGED <<sceneVars, predictionVars, toggleVars, audioVars, ui_mode, main_pc,
                   stop_calls, test_mode, restart_failures, deviceVars, lockVars, outputVars, threadVars, tickVars, prediction_stream, dmx_controller,
                   oculizer_pc, prediction_stream_released, dmx_released,
                   dmx_frames_sent, worker_deaths>>

\* The prediction thread gets stuck in the inference and never returns.
WorkerHangs ==
    /\ prediction_thread_alive
    /\ worker_pc = "infer"
    /\ worker_pc' = "hung"
    /\ UNCHANGED <<sceneVars, predictionVars, toggleVars, audioVars, ui_mode, main_pc,
                   stop_calls, test_mode, restart_failures, deviceVars, lockVars, outputVars, threadVars, tickVars, prediction_stream, dmx_controller,
                   oculizer_pc, log, prediction_stream_released, dmx_released,
                   dmx_frames_sent, worker_deaths>>

\* The prediction thread dies unexpectedly.
WorkerDiesUnexpectedly ==
    /\ worker_pc # "hung"
    /\ worker_deaths < MaxWorkerDeaths
    /\ WorkerDies
    /\ worker_deaths' = worker_deaths + 1
    /\ worker_pc' = "wait"
    /\ current_predicted_scene' = SceneAfterWorkerLoss(current_predicted_scene)
    /\ UNCHANGED <<sceneVars, scene_cache_size, scene_cache, latest_prediction,
                   current_cluster, prediction_count, raw_predictions,
                   toggleVars, ui_mode, main_pc,
                   stop_calls, test_mode, restart_failures, deviceVars, lockVars, outputVars, threadVars, tickVars, prediction_stream, dmx_controller,
                   oculizer_pc, log, prediction_stream_released, dmx_released,
                   dmx_frames_sent>>

\* The prediction stream, while open, invokes prediction_audio_callback.
PredictionStreamCallback ==
    /\ \/ /\ prediction_stream = "open"
          /\ frames_offered < MaxLifeFrames
          /\ PredictionCallbackEnter
       \/ PredictionCallbackPut
    /\ UNCHANGED <<sceneVars, predictionVars, toggleVars, lifeVars, deviceVars, lockVars, outputVars, threadVars, tickVars>>

\* The FFT stream, which run() does not set up in test mode, invokes
\* audio_callback.
FftStreamCallback ==
    /\ \/ /\ ~test_mode
          /\ frames_offered < MaxLifeFrames
          /\ AudioCallbackEnter
       \/ AudioCallbackPut
    /\ UNCHANGED <<sceneVars, predictionVars, toggleVars, lifeVars, deviceVars, lockVars, outputVars, threadVars, tickVars>>

\* ------------------------------------- DMX output: codec and serial writes

\* The byte values the frames of the model are filled with: zero, full, and
\* the values of the start and end bytes.
ProbeValues == {0, START_BYTE, END_BYTE, 255}

\* The channel positions the frames of the model vary.
ProbeChannels == {1, 257, DmxChannels}

\* A frame of DmxChannels values: fill everywhere but at the probe channels.
ProbeFrame(fill, probes) ==
    [c \in 1..DmxChannels |-> IF c \in ProbeChannels THEN probes[c] ELSE fill]

\* A message whose length field holds only the low byte.
LengthHigh_Dropped(n) == 0

\* A length field that starts with the high byte.
LengthLow_HighFirst(n) == n \div 256

\* The two bytes of the length field, low byte first.
LengthLow(n) == n % 256

LengthHigh(n) == n \div 256

\* START_BYTE | label | length_lo | length_hi | start code | channels | END_BYTE
EncodeDmx(channels) ==
    <<START_BYTE, SEND_DMX_LABEL, LengthLow(Len(channels) + 1),
      LengthHigh(Len(channels) + 1), DMX_START_CODE>>
      \o channels \o <<END_BYTE>>

\* The data length a message declares.
DeclaredLength(bytes) == bytes[3] + 256 * bytes[4]

\* A well-framed "send DMX" message: start and end byte in place, the label,
\* a length field that matches the bytes present, and the DMX start code.
ValidDmxMessage(bytes) ==
    /\ Len(bytes) >= 6
    /\ bytes[1] = START_BYTE
    /\ bytes[2] = SEND_DMX_LABEL
    /\ bytes[Len(bytes)] = END_BYTE
    /\ Len(bytes) = DeclaredLength(bytes) + 5
    /\ bytes[5] = DMX_START_CODE

\* The channel values of a message; the empty array for a malformed message.
DecodeDmx(bytes) ==
    IF ValidDmxMessage(bytes) THEN SubSeq(bytes, 6, Len(bytes) - 1) ELSE <<>>

\* The codec before a frame is encoded.
CodecInit ==
    /\ channel_frame \in {ProbeFrame(fill, probes) :
                            fill \in {0, 255}, probes \in [ProbeChannels -> ProbeValues]}
    /\ encoded = <<>>
    /\ decoded = <<>>
    /\ codec_pc = "frame"

CodecEncode ==
    /\ codec_pc = "frame"
    /\ encoded' = EncodeDmx(channel_frame)
    /\ codec_pc' = "encoded"
    /\ UNCHANGED <<channel_frame, decoded>>

CodecDecode ==
    /\ codec_pc = "encoded"
    /\ decoded' = DecodeDmx(encoded)
    /\ codec_pc' = "decoded"
    /\ UNCHANGED <<channel_frame, encoded>>

\* The threads that hand frames to the DMX controller: the Oculizer thread
\* (process_audio_and_lights) and the main thread (turn_off_all_lights).
Writers == {"oculizer_thread", "main_thread"}

\* A controller whose write does not wait for the lock.
LockAvailable_Always == TRUE

\* The controller's internal lock is free.
LockAvailable == write_lock = None

\* The serial connection with nothing written and no write begun.
WireInit ==
    /\ write_lock = None
    /\ writer_pc = [w \in Writers |-> "idle"]
    /\ writer_frame = [w \in Writers |-> 0]
    /\ writer_pos = [w \in Writers |-> 0]
    /\ wire = <<>>
    /\ frames_submitted = 0

\* A thread hands a frame to the controller.
WriteBegin(w) ==
    /\ writer_pc[w] = "idle"
    /\ frames_submitted < MaxWireFrames
    /\ frames_submitted' = frames_submitted + 1
    /\ writer_frame' = [writer_frame EXCEPT ![w] = frames_submitted + 1]
    /\ writer_pos' = [writer_pos EXCEPT ![w] = 0]
    /\ writer_pc' = [writer_pc EXCEPT ![w] = "acquire"]
    /\ UNCHANGED <<write_lock, wire>>

\* The write takes the lock, waiting while another write holds it.
LockAcquire(w) ==
    /\ writer_pc[w] = "acquire"
    /\ LockAvailable
    /\ write_lock' = w
    /\ writer_pc' = [writer_pc EXCEPT ![w] = "write"]
    /\ UNCHANGED <<writer_frame, writer_pos, wire, frames_submitted>>

\* The serial port takes the next piece of the message.
WritePiece(w) ==
    /\ writer_pc[w] = "write"
    /\ writer_pos[w] < WireChunksPerFrame
    /\ wire' = Append(wire, <<writer_frame[w], writer_pos[w] + 1>>)
    /\ writer_pos' = [writer_pos EXCEPT ![w] = writer_pos[w] + 1]
    /\ UNCHANGED <<write_lock, writer_pc, writer_frame, frames_submitted>>

\* The whole message is out: the write gives the lock back and returns.
LockRelease(w) ==
    /\ writer_pc[w] = "write"
    /\ writer_pos[w] = WireChunksPerFrame
    /\ write_lock' = None
    /\ writer_pc' = [writer_pc EXCEPT ![w] = "idle"]
    /\ UNCHANGED <<writer_frame, writer_pos, wire, frames_submitted>>

\* The prediction fields a reader looks at, as they stand.
PredictionState ==
    [scene |-> current_predicted_scene, cluster |-> current_cluster,
     latest |-> latest_prediction, count |-> prediction_count]

\* The prediction lock free, nobody about to take it, nothing published.
LockInit ==
    /\ prediction_lock = None
    /\ publisher_pc = "wait"
    /\ reader_pc = "idle"
    /\ reader_snapshot = [scene |-> None, cluster |-> NoCluster, latest |-> None, count |-> 0]
    /\ published = {reader_snapshot}

\* The control loop's serial output before the first write.
OutputInit ==
    /\ consecutive_failures = 0
    /\ rendering_suspended = FALSE
    /\ output_loop = "running"
    /\ writes_attempted = 0
    /\ output_ticks = 0
    /\ output_pc = "tick"

\* The device side at rest, for the runs that do not exercise it.
\* The two paths that close the prediction stream: Oculizer.stop() on the
\* caller's thread and the finally block of run() on the Oculizer thread.
Closers == {"stop()", "finally"}

\* The prediction threads that can be created, in the order of creation.
WorkerIds == 1..MaxWorkerStarts

\* The prediction threads that are alive: running or stuck.
LiveWorkers == {w \in WorkerIds : worker_threads[w] \in {"running", "hung"}}

\* No prediction thread created yet: self.prediction_thread = None.
NoWorkerYet ==
    /\ worker_threads = [w \in WorkerIds |-> "unborn"]
    /\ prediction_thread = 0
    /\ run_pc = "streams"

\* Neither closing path has begun and nothing was called on the stream
\* object; run() is in its loop, with the first prediction thread running
\* when scene prediction is enabled.
ThreadInit ==
    /\ closer_pc = [p \in Closers |-> "idle"]
    /\ stream_stop_calls = 0
    /\ stream_close_calls = 0
    /\ worker_threads = [w \in WorkerIds |->
                            IF w = 1 /\ prediction_thread_alive THEN "running" ELSE "unborn"]
    /\ prediction_thread = IF prediction_thread_alive THEN 1 ELSE 0
    /\ run_pc = "loop"

\* The value a channel has when its fixture is off.
OffValue == 0

\* No frame built yet.
NoFrame == [c \in {} |-> OffValue]

\* The rendering loop before its first pass.
TickInit ==
    /\ tick_pc = "sleep"
    /\ tick_count = 0
    /\ tick_scene = None
    /\ tick_audio = 0
    /\ tick_predictions = 0
    /\ audio_snapshot = 0
    /\ tick_frame = NoFrame
    /\ handed = [tick |-> 0, scene |-> None, audio |-> 0, predictions |-> 0,
                 frame |-> NoFrame, before |-> NoFrame]

DeviceIdle ==
    /\ channel_frame = <<>>
    /\ encoded = <<>>
    /\ decoded = <<>>
    /\ codec_pc = "frame"
    /\ WireInit
    /\ LockInit
    /\ OutputInit
    /\ ThreadInit
    /\ TickInit

\* ------------------------------------------------------ the prediction lock

\* A prediction thread that takes the lock before it starts the inference.
LockHeldDuringInference_Yes == TRUE

\* The prediction thread holds prediction_lock only for the state update.
LockHeldDuringInference == FALSE

\* The prediction thread has a chunk and starts resampling and inference.
PublisherTakeChunk ==
    /\ publisher_pc = "wait"
    /\ prediction_count < MaxPredictions
    /\ IF LockHeldDuringInference
         THEN /\ prediction_lock = None
              /\ prediction_lock' = "prediction_thread"
         ELSE UNCHANGED prediction_lock
    /\ publisher_pc' = "infer"
    /\ UNCHANGED <<reader_pc, reader_snapshot, published, predictionVars, predicted_scene>>

\* The inference has returned a cluster; the thread goes for the lock.
PublisherInferenceDone ==
    /\ publisher_pc = "infer"
    /\ publisher_pc' = IF LockHeldDuringInference THEN "publish" ELSE "acquire"
    /\ UNCHANGED <<prediction_lock, reader_pc, reader_snapshot, published,
                   predictionVars, predicted_scene>>

\* with self.prediction_lock: entered by the prediction thread.
PublisherAcquire ==
    /\ publisher_pc = "acquire"
    /\ prediction_lock = None
    /\ prediction_lock' = "prediction_thread"
    /\ publisher_pc' = "publish"
    /\ UNCHANGED <<reader_pc, reader_snapshot, published, predictionVars, predicted_scene>>

\* The state update under the lock, first assignments: the cluster, the raw
\* scene and the cache.
PublisherPublish ==
    /\ publisher_pc = "publish"
    /\ \E cluster \in Clusters :
          /\ current_cluster' = cluster
          /\ latest_prediction' = ClusterToScene(cluster)
          /\ scene_cache' = CacheInsert(scene_cache, ClusterToScene(cluster), scene_cache_size)
          /\ raw_predictions' = Append(raw_predictions, ClusterToScene(cluster))
    /\ publisher_pc' = "publish_rest"
    /\ UNCHANGED <<prediction_lock, reader_pc, reader_snapshot, published, predicted_scene,
                   scene_cache_size, current_predicted_scene, prediction_count>>

\* The state update under the lock, last assignments: the smoothed scene and
\* the counter. The publication is complete.
PublisherPublishRest ==
    /\ publisher_pc = "publish_rest"
    /\ current_predicted_scene' = MajorityVote(scene_cache)
    /\ prediction_count' = prediction_count + 1
    /\ publisher_pc' = "release"
    /\ UNCHANGED <<prediction_lock, reader_pc, reader_snapshot, predicted_scene,
                   scene_cache_size, scene_cache, latest_prediction, current_cluster,
                   raw_predictions>>
    /\ published' = published \cup {PredictionState'}

\* The with block is left.
PublisherRelease ==
    /\ publisher_pc = "release"
    /\ prediction_lock' = None
    /\ publisher_pc' = "wait"
    /\ UNCHANGED <<reader_pc, reader_snapshot, published, predictionVars, predicted_scene>>

\* A reader that reads the prediction fields without the lock.
ReaderTakesLock_No == FALSE

\* Every access to the shared prediction state is made under prediction_lock.
ReaderTakesLock == TRUE

\* The main loop comes to read the prediction state.
ReaderBegin ==
    /\ reader_pc = "idle"
    /\ reader_pc' = "acquire"
    /\ UNCHANGED <<prediction_lock, publisher_pc, reader_snapshot, published,
                   predictionVars, predicted_scene>>

\* with self.prediction_lock: entered by the main loop.
ReaderAcquire ==
    /\ reader_pc = "acquire"
    /\ IF ReaderTakesLock
         THEN /\ prediction_lock = None
              /\ prediction_lock' = "main_loop"
         ELSE UNCHANGED prediction_lock
    /\ reader_pc' = "read"
    /\ UNCHANGED <<publisher_pc, reader_snapshot, published, predictionVars, predicted_scene>>

\* The read of current_predicted_scene and current_cluster under the lock.
ReaderRead ==
    /\ reader_pc = "read"
    /\ predicted_scene' = current_predicted_scene
    /\ reader_snapshot' = [reader_snapshot EXCEPT !.scene = current_predicted_scene,
                                                  !.cluster = current_cluster]
    /\ reader_pc' = "read_rest"
    /\ UNCHANGED <<prediction_lock, publisher_pc, published, predictionVars>>

\* The read of latest_prediction and prediction_count under the lock.
ReaderReadRest ==
    /\ reader_pc = "read_rest"
    /\ reader_snapshot' = [reader_snapshot EXCEPT !.latest = latest_prediction,
                                                  !.count = prediction_count]
    /\ reader_pc' = "release"
    /\ UNCHANGED <<prediction_lock, publisher_pc, published, predictionVars, predicted_scene>>

\* The with block is left.
ReaderRelease ==
    /\ reader_pc = "release"
    /\ IF ReaderTakesLock
         THEN prediction_lock' = None
         ELSE UNCHANGED prediction_lock
    /\ reader_pc' = "idle"
    /\ UNCHANGED <<publisher_pc, reader_snapshot, published, predictionVars, predicted_scene>>

\* ------------------------------------------------------- specifications

\* The scene manager alone: profile, fallbacks, scene changes.
SceneOnlyInit ==
    /\ SceneInit
    /\ PredictionInit
    /\ scene_cache_size = 1
    /\ AudioInit
    /\ scene_prediction_enabled
    /\ scene_prediction_device = None
    /\ ToggleInit
    /\ LifeInit
    /\ DeviceIdle
    /\ ~test_mode

SceneNext == ChangeScene /\ UNCHANGED <<predictionVars, audioVars, toggleVars, lifeVars, deviceVars, lockVars, outputVars, threadVars, tickVars>>

SpecScene == SceneOnlyInit /\ [][SceneNext]_vars

\* The scene manager with a fallback mapping of several entries.
FallbackChainInit ==
    /\ scenes = [s \in Scenes |-> IF s = "party"
                                    THEN [lights |-> PartyFixtures, target_lights |-> {}]
                                    ELSE DocSceneData(s)]
    /\ profile_name \in Profiles
    /\ available_fixtures = ProfileFixtures(profile_name)
    /\ fallback_mappings \in FallbackChainMaps
    /\ scene_compatibility = AnalyzeSceneCompatibility(scenes, available_fixtures)
    /\ current_scene = "party"
    /\ requested_scene = None
    /\ last_log = "none"
    /\ PredictionInit
    /\ scene_cache_size = 1
    /\ AudioInit
    /\ scene_prediction_enabled
    /\ scene_prediction_device = None
    /\ ToggleInit
    /\ LifeInit
    /\ DeviceIdle
    /\ ~test_mode

SpecFallbackChain == FallbackChainInit /\ [][SceneNext]_vars

\* The smoother alone: predictions published into the bounded history.
SmootherInit ==
    /\ PredictionInit
    /\ SceneInit
    /\ profile_name = "mobile"
    /\ fallback_mappings = <<>>
    /\ scenes["party"] = [lights |-> {}, target_lights |-> {}]
    /\ AudioInit
    /\ scene_prediction_enabled
    /\ scene_prediction_device = None
    /\ ToggleInit
    /\ LifeInit
    /\ DeviceIdle
    /\ ~test_mode

SmootherNext ==
    \E cluster \in Clusters :
        PublishPrediction(cluster) /\ UNCHANGED <<sceneVars, audioVars, toggleVars, lifeVars, deviceVars, lockVars, outputVars, threadVars, tickVars>>

SpecSmoother == SmootherInit /\ [][SmootherNext]_vars

\* The audio callbacks, the prediction queue, the worker's reads and stop().
AudioOnlyInit ==
    /\ AudioInit
    /\ PredictionInit
    /\ scene_cache_size = 1
    /\ SceneInit
    /\ profile_name = "mobile"
    /\ fallback_mappings = <<>>
    /\ scenes["party"] = [lights |-> {}, target_lights |-> {}]
    /\ ToggleInit
    /\ LifeInit
    /\ DeviceIdle
    /\ ~test_mode

AudioNext ==
    \/ PredictionCallbackEnter /\ UNCHANGED <<sceneVars, predictionVars, toggleVars, lifeVars, deviceVars, lockVars, outputVars, threadVars, tickVars>>
    \/ PredictionCallbackPut /\ UNCHANGED <<sceneVars, predictionVars, toggleVars, lifeVars, deviceVars, lockVars, outputVars, threadVars, tickVars>>
    \/ AudioCallbackEnter /\ UNCHANGED <<sceneVars, predictionVars, toggleVars, lifeVars, deviceVars, lockVars, outputVars, threadVars, tickVars>>
    \/ AudioCallbackPut /\ UNCHANGED <<sceneVars, predictionVars, toggleVars, lifeVars, deviceVars, lockVars, outputVars, threadVars, tickVars>>
    \/ WorkerGet /\ UNCHANGED <<sceneVars, predictionVars, toggleVars, lifeVars, deviceVars, lockVars, outputVars, threadVars, tickVars>>
    \/ WorkerDies /\ UNCHANGED <<sceneVars, predictionVars, toggleVars, lifeVars, deviceVars, lockVars, outputVars, threadVars, tickVars>>
    \/ StopClearRunning /\ UNCHANGED <<sceneVars, predictionVars, toggleVars, lifeVars, deviceVars, lockVars, outputVars, threadVars, tickVars>>

SpecAudio == AudioOnlyInit /\ [][AudioNext]_vars

\* Toggle mode on the mobile profile, with no fallback map or with "disco"
\* redirected to "orb_cycle", while the predictor keeps publishing.
ToggleModeInit ==
    /\ SceneInit
    /\ profile_name = "mobile"
    /\ scenes["party"] = [lights |-> PartyFixtures, target_lights |-> NoOrchestrator]
    /\ DOMAIN fallback_mappings \subseteq {"disco"}
    /\ \A s \in DOMAIN fallback_mappings : fallback_mappings[s] = "orb_cycle"
    /\ PredictionInit
    /\ scene_cache_size = 1
    /\ AudioInit
    /\ scene_prediction_enabled
    /\ scene_prediction_device = None
    /\ ToggleInit
    /\ LifeInit
    /\ DeviceIdle
    /\ ~test_mode

ToggleNext ==
    \/ \E cluster \in Clusters :
         PublishPrediction(cluster) /\ UNCHANGED <<sceneVars, audioVars, toggleVars, lifeVars, deviceVars, lockVars, outputVars, threadVars, tickVars>>
    \/ ToggleDisplayTick /\ UNCHANGED <<predictionVars, audioVars, lifeVars, deviceVars, lockVars, outputVars, threadVars, tickVars>>
    \/ ToggleOverride /\ UNCHANGED <<predictionVars, audioVars, lifeVars, deviceVars, lockVars, outputVars, threadVars, tickVars>>
    \/ \E new_scene \in Scenes :
         SelectScene(new_scene) /\ UNCHANGED <<predictionVars, audioVars, lifeVars, deviceVars, lockVars, outputVars, threadVars, tickVars>>

SpecToggle == ToggleModeInit /\ [][ToggleNext]_vars

\* The codec alone: a frame is encoded, then the message decoded.
CodecOnlyInit ==
    /\ SceneInit
    /\ profile_name = "mobile"
    /\ fallback_mappings = <<>>
    /\ scenes["party"] = [lights |-> {}, target_lights |-> {}]
    /\ PredictionInit
    /\ scene_cache_size = 1
    /\ AudioInit
    /\ scene_prediction_enabled
    /\ scene_prediction_device = None
    /\ ToggleInit
    /\ LifeInit
    /\ ~test_mode
    /\ WireInit
    /\ LockInit
    /\ OutputInit
    /\ ThreadInit
    /\ TickInit
    /\ CodecInit

CodecNext ==
    \/ CodecEncode /\ UNCHANGED <<sceneVars, predictionVars, audioVars, toggleVars, lifeVars, lockVars, outputVars, threadVars, tickVars,
                                  write_lock, writer_pc, writer_frame, writer_pos, wire,
                                  frames_submitted>>
    \/ CodecDecode /\ UNCHANGED <<sceneVars, predictionVars, audioVars, toggleVars, lifeVars, lockVars, outputVars, threadVars, tickVars,
                                  write_lock, writer_pc, writer_frame, writer_pos, wire,
                                  frames_submitted>>

SpecCodec == CodecOnlyInit /\ [][CodecNext]_vars

\* ------------------------------------------------ serial write failures

\* A control loop that ends on a failed serial write.
LoopAfterWriteFailure_Terminates == "terminated"

\* A failed serial write is logged and the control loop goes on.
LoopAfterWriteFailure == "running"

\* Automatic rendering is suspended once the failures in a row exceed the
\* configured threshold.
SuspendAfter(failures) == failures > FailureThreshold

\* One tick of the control loop: a frame is written unless automatic
\* rendering is suspended.
OutputTick ==
    /\ output_loop = "running"
    /\ output_pc = "tick"
    /\ output_ticks < MaxOutputTicks
    /\ output_ticks' = output_ticks + 1
    /\ output_pc' = IF rendering_suspended THEN "tick" ELSE "write"
    /\ UNCHANGED <<consecutive_failures, rendering_suspended, output_loop, writes_attempted>>

\* The serial write goes through: the run of failures is over.
OutputWriteSucceeds ==
    /\ output_loop = "running"
    /\ output_pc = "write"
    /\ writes_attempted' = writes_attempted + 1
    /\ consecutive_failures' = 0
    /\ output_pc' = "tick"
    /\ UNCHANGED <<rendering_suspended, output_loop, output_ticks>>

\* The serial write raises.
OutputWriteFails ==
    /\ output_loop = "running"
    /\ output_pc = "write"
    /\ writes_attempted' = writes_attempted + 1
    /\ consecutive_failures' = consecutive_failures + 1
    /\ output_pc' = "failed"
    /\ UNCHANGED <<rendering_suspended, output_loop, output_ticks>>

\* The failure is handled: logged, the frame dropped, rendering suspended if
\* the failures have gone on beyond the threshold.
OutputHandleFailure ==
    /\ output_pc = "failed"
    /\ output_loop' = LoopAfterWriteFailure
    /\ rendering_suspended' = (rendering_suspended \/ SuspendAfter(consecutive_failures))
    /\ output_pc' = "tick"
    /\ UNCHANGED <<consecutive_failures, writes_attempted, output_ticks>>

\* The serial connection alone: two threads hand frames to the controller.
WireOnlyInit ==
    /\ SceneInit
    /\ profile_name = "mobile"
    /\ fallback_mappings = <<>>
    /\ scenes["party"] = [lights |-> {}, target_lights |-> {}]
    /\ PredictionInit
    /\ scene_cache_size = 1
    /\ AudioInit
    /\ scene_prediction_enabled
    /\ scene_prediction_device = None
    /\ ToggleInit
    /\ LifeInit
    /\ ~test_mode
    /\ DeviceIdle

WireNext ==
    \E w \in Writers :
        \/ WriteBegin(w) /\ UNCHANGED <<sceneVars, predictionVars, audioVars, toggleVars,
                                        lifeVars, lockVars, outputVars, threadVars, tickVars, channel_frame, encoded, decoded, codec_pc>>
        \/ LockAcquire(w) /\ UNCHANGED <<sceneVars, predictionVars, audioVars, toggleVars,
                                         lifeVars, lockVars, outputVars, threadVars, tickVars, channel_frame, encoded, decoded, codec_pc>>
        \/ WritePiece(w) /\ UNCHANGED <<sceneVars, predictionVars, audioVars, toggleVars,
                                        lifeVars, lockVars, outputVars, threadVars, tickVars, channel_frame, encoded, decoded, codec_pc>>
        \/ LockRelease(w) /\ UNCHANGED <<sceneVars, predictionVars, audioVars, toggleVars,
                                         lifeVars, lockVars, outputVars, threadVars, tickVars, channel_frame, encoded, decoded, codec_pc>>

SpecWire == WireOnlyInit /\ [][WireNext]_vars


\* An oculizer-mode loop that never switches to the prediction.
OculizerFollows_Never(prediction) == FALSE

\* Oculizer mode: a prediction, once there is one, is the scene to show.
OculizerFollows(prediction) == prediction # None

\* One pass of the oculizer-mode loop of oculize.py: it reads
\* oculizer.current_predicted_scene and changes to it.
OculizerModeTick ==
    /\ main_pc = "ui"
    /\ ui_mode = "oculizer"
    /\ IF OculizerFollows(current_predicted_scene)
         THEN SetScene(current_predicted_scene, TRUE)
         ELSE UNCHANGED sceneVars
    /\ UNCHANGED <<predictionVars, audioVars, toggleVars, lifeVars, deviceVars, lockVars, outputVars, threadVars, tickVars>>

\* Both presentations of oculize.py on the mobile profile: oculizer mode,
\* toggle mode with its override, and the predictor publishing throughout.
ModesInit ==
    /\ ToggleModeInit
    /\ fallback_mappings = <<>>

ModesNext ==
    \/ \E cluster \in Clusters :
         PublishPrediction(cluster)
           /\ UNCHANGED <<sceneVars, audioVars, toggleVars, lifeVars, deviceVars, lockVars, outputVars, threadVars, tickVars>>
    \/ EnterToggleMode
    \/ ReturnToOculizerMode
    \/ OculizerModeTick
    \/ /\ ui_mode = "toggle"
       /\ ToggleDisplayTick
       /\ UNCHANGED <<predictionVars, audioVars, lifeVars, deviceVars, lockVars, outputVars, threadVars, tickVars>>
    \/ /\ ui_mode = "toggle"
       /\ ToggleOverride
       /\ UNCHANGED <<predictionVars, audioVars, lifeVars, deviceVars, lockVars, outputVars, threadVars, tickVars>>
    \/ \E new_scene \in Scenes :
         /\ ui_mode = "toggle"
         /\ SelectScene(new_scene)
         /\ UNCHANGED <<predictionVars, audioVars, lifeVars, deviceVars, lockVars, outputVars, threadVars, tickVars>>

SpecModes == ModesInit /\ [][ModesNext]_vars

\* The prediction thread and a reader around prediction_lock.
LockOnlyInit ==
    /\ SmootherInit
    /\ scene_cache_size = 1

LockNext ==
    \/ /\ \/ PublisherTakeChunk
          \/ PublisherInferenceDone
          \/ PublisherAcquire
          \/ PublisherPublish
          \/ PublisherPublishRest
          \/ PublisherRelease
          \/ ReaderBegin
          \/ ReaderAcquire
          \/ ReaderRead
          \/ ReaderReadRest
          \/ ReaderRelease
       /\ UNCHANGED <<sceneVars, audioVars, override_active, override_scene,
                      current_scene_name, lifeVars, deviceVars, outputVars, threadVars, tickVars>>

SpecLock == LockOnlyInit /\ [][LockNext]_vars

\* ------------------------------------------------- the rendering loop

\* The number of DMX channels a fixture takes, by its type.
FixtureChannelCount(f) ==
    IF f \in Rgbs THEN RgbChannels
    ELSE IF f \in Rockvilles THEN RockvilleChannels
    ELSE IF f = "laser" THEN LaserChannels
    ELSE IF f = "strobe" THEN StrobeChannels
    ELSE DimmerChannels

\* The address space of a set of fixtures: every channel of every fixture.
AddressSpace(fixtures) ==
    UNION {{<<f, k>> : k \in 1..FixtureChannelCount(f)} : f \in fixtures}

\* The levels the audio feature takes.
AudioLevels == 0..MaxAudioLevel

\* The brightness a modulator gives for an audio level, in brightness_range.
Brightness(audio) == (MaxChannelValue * audio) \div MaxAudioLevel

\* A frame that is patched rather than rebuilt: the channels of a fixture the
\* scene does not reference keep the values of the previous frame.
RenderFrame_Incremental(previous, scene_data, audio) ==
    [c \in AddressSpace(available_fixtures.names) |->
        IF c[1] \in GetSceneFixtures(scene_data)
          THEN Brightness(audio)
          ELSE IF c \in DOMAIN previous THEN previous[c] ELSE OffValue]

\* The frame of a pass: rebuilt over the whole address space of the profile;
\* the fixtures of the scene at their modulated value, every other fixture off.
RenderFrame(previous, scene_data, audio) ==
    [c \in AddressSpace(available_fixtures.names) |->
        IF c[1] \in GetSceneFixtures(scene_data)
          THEN Brightness(audio)
          ELSE OffValue]

\* A pass that renders the scene requested at the time of rendering: it
\* looks at the published prediction again.
TickSceneSource_Live ==
    IF FollowsPrediction(current_predicted_scene)
      THEN EffectiveScene(current_predicted_scene, TRUE)
      ELSE current_scene

\* The scene a pass renders: the one it read at its start.
TickSceneSource == tick_scene

\* Start of a pass: the published prediction is read and, in automatic mode,
\* followed; the resolved scene and the audio feature are taken for the pass.
TickBegin ==
    /\ tick_pc = "sleep"
    /\ tick_count < MaxTicks
    /\ prediction_lock # "prediction_thread"
    /\ ToggleDisplayTick
    /\ tick_scene' = current_scene'
    /\ tick_audio' = audio_snapshot
    /\ tick_predictions' = prediction_count
    /\ tick_count' = tick_count + 1
    /\ tick_pc' = "render"
    /\ UNCHANGED <<audio_snapshot, tick_frame, handed>>

\* The frame of the pass is built.
TickRender ==
    /\ tick_pc = "render"
    /\ tick_frame' = RenderFrame(handed.frame, scenes[TickSceneSource], tick_audio)
    /\ tick_pc' = "write"
    /\ UNCHANGED <<tick_count, tick_scene, tick_audio, tick_predictions, audio_snapshot,
                   handed>>

\* The frame is handed to the DMX controller; the loop sleeps until the next
\* pass.
TickWrite ==
    /\ tick_pc = "write"
    /\ handed' = [tick |-> tick_count, scene |-> tick_scene, audio |-> tick_audio,
                  predictions |-> tick_predictions, frame |-> tick_frame,
                  before |-> handed.frame]
    /\ tick_pc' = "sleep"
    /\ UNCHANGED <<tick_count, tick_scene, tick_audio, tick_predictions, audio_snapshot,
                   tick_frame>>

\* The FFT stream's callback stores a new audio feature.
AudioUpdate ==
    /\ \E level \in AudioLevels \ {audio_snapshot} : audio_snapshot' = level
    /\ UNCHANGED <<tick_pc, tick_count, tick_scene, tick_audio, tick_predictions,
                   tick_frame, handed>>

\* The scene picked by hand while the rendering loop is looked at.
TickSelectable == {"orb_cycle"}

\* Everything but scene, toggle, prediction, lock and loop state.
TickRest == <<audioVars, lifeVars, deviceVars, outputVars, threadVars>>

\* The rendering loop on the mobile or the garage2025 profile, with "disco"
\* redirected to "orb_cycle".
TickLoopInit ==
    /\ SceneInit
    /\ profile_name \in {"mobile", "garage2025"}
    /\ scenes["party"] = [lights |-> PartyFixtures, target_lights |-> NoOrchestrator]
    /\ DOMAIN fallback_mappings = {"disco"}
    /\ \A s \in DOMAIN fallback_mappings : fallback_mappings[s] = "orb_cycle"
    /\ PredictionInit
    /\ scene_cache_size = 1
    /\ AudioInit
    /\ scene_prediction_enabled
    /\ scene_prediction_device = None
    /\ ToggleInit
    /\ LifeInit
    /\ DeviceIdle
    /\ ~test_mode

TickNext ==
    \/ TickBegin /\ UNCHANGED <<predictionVars, lockVars, TickRest>>
    \/ TickRender /\ UNCHANGED <<sceneVars, predictionVars, toggleVars, lockVars, TickRest>>
    \/ TickWrite /\ UNCHANGED <<sceneVars, predictionVars, toggleVars, lockVars, TickRest>>
    \/ AudioUpdate /\ UNCHANGED <<sceneVars, predictionVars, toggleVars, lockVars, TickRest>>
    \/ \E new_scene \in TickSelectable :
         /\ tick_pc = "sleep"
         /\ SelectScene(new_scene)
         /\ UNCHANGED <<predictionVars, lockVars, tickVars, TickRest>>
    \/ /\ tick_pc = "sleep"
       /\ ToggleOverride
       /\ UNCHANGED <<predictionVars, lockVars, tickVars, TickRest>>
    \/ /\ prediction_count < MaxTickPredictions
       /\ PublisherTakeChunk
       /\ UNCHANGED <<sceneVars, override_active, override_scene, current_scene_name,
                      tickVars, TickRest>>
    \/ (PublisherInferenceDone \/ PublisherAcquire \/ PublisherPublish
          \/ PublisherPublishRest \/ PublisherRelease)
         /\ UNCHANGED <<sceneVars, override_active, override_scene, current_scene_name,
                        tickVars, TickRest>>

SpecTick == TickLoopInit /\ [][TickNext]_vars

\* ------------------------------- stop() and run()'s finally, by statement

\* Everything the two closing paths leave alone.
StreamRaceRest ==
    <<sceneVars, predictionVars, toggleVars, prediction_audio_queue,
      scene_prediction_enabled, scene_prediction_device, prediction_thread_alive,
      pred_cb_pc, main_cb_pc, pred_cb_result, main_cb_result, frames_offered,
      frames_enqueued, frames_dropped, frames_consumed, ui_mode, main_pc, stop_calls,
      test_mode, dmx_controller, oculizer_pc, worker_pc, prediction_stream_released,
      dmx_released, dmx_frames_sent, worker_deaths, restart_failures, deviceVars,
      lockVars, outputVars, worker_threads, prediction_thread, run_pc, tickVars>>

\* What the except branch of a path logs.
CloserFault(p) ==
    [error |-> "Stream stop() or close() raised", resource |-> p, first_call |-> TRUE]

\* "except Exception as e:" the error is logged and the path goes on.
CloserCatches(p) ==
    /\ log' = log \cup {CloserFault(p)}
    /\ closer_pc' = [closer_pc EXCEPT ![p] = "done"]

\* Oculizer.stop(): self.running.clear()
StopClearsFlag ==
    /\ closer_pc["stop()"] = "idle"
    /\ running' = FALSE
    /\ closer_pc' = [closer_pc EXCEPT !["stop()"] = "check"]
    /\ UNCHANGED <<prediction_stream, log, stream_stop_calls, stream_close_calls,
                   StreamRaceRest>>

\* Oculizer.run(): the loop has seen the cleared flag and the finally block
\* begins.
FinallyBegins ==
    /\ closer_pc["finally"] = "idle"
    /\ ~running
    /\ closer_pc' = [closer_pc EXCEPT !["finally"] = "check"]
    /\ UNCHANGED <<running, prediction_stream, log, stream_stop_calls,
                   stream_close_calls, StreamRaceRest>>

\* "if self.prediction_stream:"
CloserTestsHandle(p) ==
    /\ closer_pc[p] = "check"
    /\ closer_pc' = [closer_pc EXCEPT ![p] = IF prediction_stream # None
                                                THEN "stop" ELSE "done"]
    /\ UNCHANGED <<running, prediction_stream, log, stream_stop_calls,
                   stream_close_calls, StreamRaceRest>>

\* "self.prediction_stream.stop()": on a handle that is None by now the
\* attribute access raises; on the stream the call is made, and returns or
\* raises.
CloserCallsStop(p) ==
    /\ closer_pc[p] = "stop"
    /\ IF prediction_stream = None
         THEN /\ CloserCatches(p)
              /\ UNCHANGED stream_stop_calls
         ELSE /\ stream_stop_calls' = stream_stop_calls + 1
              /\ \/ /\ closer_pc' = [closer_pc EXCEPT ![p] = "close"]
                    /\ UNCHANGED log
                 \/ CloserCatches(p)
    /\ UNCHANGED <<running, prediction_stream, stream_close_calls, StreamRaceRest>>

\* "self.prediction_stream.close()"
CloserCallsClose(p) ==
    /\ closer_pc[p] = "close"
    /\ IF prediction_stream = None
         THEN /\ CloserCatches(p)
              /\ UNCHANGED stream_close_calls
         ELSE /\ stream_close_calls' = stream_close_calls + 1
              /\ \/ /\ closer_pc' = [closer_pc EXCEPT ![p] = "assign"]
                    /\ UNCHANGED log
                 \/ CloserCatches(p)
    /\ UNCHANGED <<running, prediction_stream, stream_stop_calls, StreamRaceRest>>

\* "self.prediction_stream = None"
CloserClearsHandle(p) ==
    /\ closer_pc[p] = "assign"
    /\ prediction_stream' = None
    /\ closer_pc' = [closer_pc EXCEPT ![p] = "done"]
    /\ UNCHANGED <<running, log, stream_stop_calls, stream_close_calls, StreamRaceRest>>

\* --------------------------------------- starting the prediction thread

\* Everything the start and the end of a prediction thread leave alone.
WorkersRest ==
    <<sceneVars, predictionVars, toggleVars, prediction_audio_queue,
      scene_prediction_enabled, scene_prediction_device, pred_cb_pc, main_cb_pc,
      pred_cb_result, main_cb_result, frames_offered, frames_enqueued, frames_dropped,
      frames_consumed, lifeVars, deviceVars, lockVars, outputVars, closer_pc,
      stream_stop_calls, stream_close_calls, tickVars>>

\* The next thread to be created.
NextWorker == 1 + Cardinality({w \in WorkerIds : worker_threads[w] # "unborn"})

\* self.prediction_thread = threading.Thread(...); self.prediction_thread.start()
StartPredictionThread ==
    /\ NextWorker \in WorkerIds
    /\ worker_threads' = [worker_threads EXCEPT ![NextWorker] = "running"]
    /\ prediction_thread' = NextWorker
    /\ prediction_thread_alive' = TRUE

\* The start paths of run(): the dual-stream path with a prediction device,
\* the single-stream path without one; no thread is started while the one
\* held in self.prediction_thread is alive.
StartPathStarts(dual) ==
    /\ scene_prediction_enabled
    /\ (scene_prediction_device # None) <=> dual
    /\ ~prediction_thread_alive

\* run(): the audio streams are started; in dual-stream mode the prediction
\* thread is started with the prediction stream.
RunStartsStreams ==
    /\ run_pc = "streams"
    /\ run_pc' = "main_loop"
    /\ IF StartPathStarts(TRUE)
         THEN StartPredictionThread
         ELSE UNCHANGED <<worker_threads, prediction_thread, prediction_thread_alive>>
    /\ UNCHANGED <<running, WorkersRest>>

\* run(): the main processing loop begins; in single-stream mode the
\* prediction thread is started there.
RunEntersLoop ==
    /\ run_pc = "main_loop"
    /\ run_pc' = "loop"
    /\ IF StartPathStarts(FALSE)
         THEN StartPredictionThread
         ELSE UNCHANGED <<worker_threads, prediction_thread, prediction_thread_alive>>
    /\ UNCHANGED <<running, WorkersRest>>

\* update_scene_prediction() in the loop: a dead prediction thread is
\* replaced by a new one.
HealthCheckStartsThread ==
    /\ run_pc = "loop"
    /\ HealthCheckRestarts
    /\ StartPredictionThread
    /\ UNCHANGED <<running, run_pc, WorkersRest>>

\* run(): the loop sees the cleared flag and ends; no health check follows.
RunLoopExits ==
    /\ run_pc = "loop"
    /\ ~running
    /\ run_pc' = "exited"
    /\ UNCHANGED <<running, prediction_thread_alive, worker_threads, prediction_thread,
                   WorkersRest>>

\* A prediction thread dies of an error that escapes its loop.
PredictionThreadDies(w) ==
    /\ worker_threads[w] = "running"
    /\ worker_threads' = [worker_threads EXCEPT ![w] = "died"]
    /\ prediction_thread_alive' = IF w = prediction_thread THEN FALSE
                                                            ELSE prediction_thread_alive
    /\ UNCHANGED <<running, prediction_thread, run_pc, WorkersRest>>

\* A prediction thread ends: its loop saw the cleared flag.
PredictionThreadEnds(w) ==
    /\ worker_threads[w] = "running"
    /\ ~running
    /\ worker_threads' = [worker_threads EXCEPT ![w] = "ended"]
    /\ prediction_thread_alive' = IF w = prediction_thread THEN FALSE
                                                            ELSE prediction_thread_alive
    /\ UNCHANGED <<running, prediction_thread, run_pc, WorkersRest>>

\* A prediction thread gets stuck in an inference: alive, but not working.
PredictionThreadHangs(w) ==
    /\ worker_threads[w] = "running"
    /\ worker_threads' = [worker_threads EXCEPT ![w] = "hung"]
    /\ UNCHANGED <<running, prediction_thread_alive, prediction_thread, run_pc, WorkersRest>>

\* Oculizer.stop(): self.running.clear()
WorkersSeeStop ==
    /\ running
    /\ running' = FALSE
    /\ UNCHANGED <<prediction_thread_alive, worker_threads, prediction_thread, run_pc,
                   WorkersRest>>

\* The output channel alone.
OutputOnlyInit == LockOnlyInit

OutputNext ==
    \/ OutputTick /\ UNCHANGED <<sceneVars, predictionVars, audioVars, toggleVars, lifeVars, deviceVars, lockVars, threadVars, tickVars>>
    \/ OutputWriteSucceeds /\ UNCHANGED <<sceneVars, predictionVars, audioVars, toggleVars, lifeVars, deviceVars, lockVars, threadVars, tickVars>>
    \/ OutputWriteFails /\ UNCHANGED <<sceneVars, predictionVars, audioVars, toggleVars, lifeVars, deviceVars, lockVars, threadVars, tickVars>>
    \/ OutputHandleFailure /\ UNCHANGED <<sceneVars, predictionVars, audioVars, toggleVars, lifeVars, deviceVars, lockVars, threadVars, tickVars>>

SpecOutput == OutputOnlyInit /\ [][OutputNext]_vars

\* ------------------------------------------------- scene manager properties

\* The fixtures of the profile that a scene references, read off scene_data.
UsedProfileFixtures(s) ==
    {f \in available_fixtures.names :
        f \in scenes[s].lights \/ f \in scenes[s].target_lights}

C2_IncompatibleUsedAsIs ==
    ( /\ requested_scene \in Scenes
      /\ requested_scene \notin DOMAIN fallback_mappings
      /\ available_fixtures.given
      /\ UsedProfileFixtures(requested_scene) = {} )
        => (current_scene = requested_scene /\ last_log = "no_fallback_warning")

\* An incompatible scene without fallback was requested while another scene
\* was current, and is now the current scene.
C2_Witness ==
    /\ requested_scene = "orb_cycle"
    /\ profile_name = "mobile"
    /\ requested_scene \notin DOMAIN fallback_mappings
    /\ current_scene = "orb_cycle"
    /\ last_log = "no_fallback_warning"

\* C3. With a profile, a scene is classified compatible exactly when some
\* fixture of the profile is among its light entries or its orchestrator
\* targets, and incompatible exactly when it uses none of them.
C3_CompatibleIffOverlap ==
    available_fixtures.given =>
        \A s \in Scenes :
            scene_compatibility[s] <=>
                (\E f \in available_fixtures.names :
                    f \in scenes[s].lights \/ f \in scenes[s].target_lights)

\* A profile under which one scene is compatible through its orchestrator
\* targets alone, and another scene is incompatible.
C3_Witness ==
    /\ available_fixtures.given
    /\ \E s \in Scenes :
          /\ scene_compatibility[s]
          /\ scenes[s].lights \cap available_fixtures.names = {}
    /\ \E s \in Scenes : ~scene_compatibility[s]

\* C4. No dark periods: when the requested scene is incompatible with the
\* profile and has a fallback entry, the scene applied uses at least one
\* fixture of the profile.
C4_NoDarkPeriods ==
    ( /\ requested_scene \in DOMAIN fallback_mappings
      /\ available_fixtures.given
      /\ UsedProfileFixtures(requested_scene) = {} )
        => UsedProfileFixtures(current_scene) # {}

\* ------------------------------------------------------ smoother properties

\* The most recent min(N, capacity) raw predictions.
RecentWindow ==
    LET n == Len(raw_predictions)
        k == IF n < scene_cache_size THEN n ELSE scene_cache_size
    IN  SubSeq(raw_predictions, n - k + 1, n)

\* Occurrences of scene s in a window, and the position of its last one.
Occurrences(w, s) == {i \in 1..Len(w) : w[i] = s}

LastPosition(w, s) ==
    CHOOSE i \in Occurrences(w, s) : \A j \in Occurrences(w, s) : j <= i

\* C5. Majority vote: after N >= 1 raw predictions into a history of capacity
\* C, the current predicted scene is a most frequent scene of the most recent
\* min(N, C) predictions, and among equally frequent scenes the one that
\* occurred last; with C = 1 it is the latest prediction; with C = 3,
\* [A,B,B] gives B and [A,B,A] gives A.
C5_MajorityVote ==
    raw_predictions # <<>> =>
        LET w == RecentWindow
            cur == current_predicted_scene
        IN  /\ Occurrences(w, cur) # {}
            /\ \A s \in Scenes \ {cur} :
                  \/ Cardinality(Occurrences(w, s)) < Cardinality(Occurrences(w, cur))
                  \/ /\ Cardinality(Occurrences(w, s)) = Cardinality(Occurrences(w, cur))
                     /\ LastPosition(w, s) < LastPosition(w, cur)
            /\ scene_cache_size = 1 => cur = raw_predictions[Len(raw_predictions)]
            /\ (scene_cache_size = 3 /\ raw_predictions = <<"party", "disco", "disco">>)
                  => cur = "disco"
            /\ (scene_cache_size = 3 /\ raw_predictions = <<"party", "disco", "party">>)
                  => cur = "party"

\* More predictions than the capacity were inserted (so one was evicted), the
\* window holds a tie, and the vote is not the scene that a window without
\* eviction would give.
C5_Witness ==
    /\ scene_cache_size = 3
    /\ raw_predictions = <<"party", "party", "disco", "supernova">>
    /\ current_predicted_scene = "supernova"

\* The whole controller on the mobile profile: the UI thread with its two
\* presentations and the shutdown path, the Oculizer thread, the prediction
\* thread and the audio callbacks, in test mode (prediction stream only), in
\* dual-stream and in single-stream mode.
LifecycleInit ==
    /\ SceneInit
    /\ profile_name = "mobile"
    /\ fallback_mappings = <<>>
    /\ scenes["party"] = [lights |-> PartyFixtures, target_lights |-> NoOrchestrator]
    /\ PredictionInit
    /\ scene_cache_size = 1
    /\ AudioInit
    /\ scene_prediction_enabled
    /\ ToggleInit
    /\ LifeInit
    /\ DeviceIdle
    /\ test_mode => scene_prediction_device # None

MainThreadNext ==
    \/ EnterToggleMode
    \/ ReturnToOculizerMode
    \/ ToggleModeCtrlO
    \/ QuitKey
    \/ TurnOffAllLights
    \/ StopBegin
    \/ StopJoinPrediction
    \/ StopCheckStream
    \/ StopCloseStream
    \/ StopCloseDmx
    \/ JoinOculizer
    \/ StopAgain
    \/ Exit

OculizerThreadNext ==
    \/ OculizerLoopTop
    \/ ProcessAudioAndLights
    \/ UpdateScenePrediction
    \/ FinallyCheckStream
    \/ FinallyCloseStream

PredictionThreadNext ==
    \/ WorkerLoopExit
    \/ WorkerTakeChunk
    \/ WorkerPublish
    \/ WorkerInferenceFails

LifecycleNext ==
    \/ MainThreadNext
    \/ OculizerThreadNext
    \/ OculizerHangs
    \/ PredictionThreadNext
    \/ WorkerHangs
    \/ WorkerDiesUnexpectedly
    \/ RestartFails
    \/ PredictionStreamCallback
    \/ FftStreamCallback

SpecLifecycle == LifecycleInit /\ [][LifecycleNext]_vars

\* The scheduler runs every thread that can take a step; a thread may still
\* hang or die.
SpecLifecycleFair ==
    /\ SpecLifecycle
    /\ WF_vars(MainThreadNext)
    /\ WF_vars(OculizerThreadNext)
    /\ WF_vars(PredictionThreadNext)

\* The start of run(): scene prediction on or off, with or without a
\* prediction device, no prediction thread created yet.
WorkersInit ==
    /\ SceneInit
    /\ profile_name = "mobile"
    /\ fallback_mappings = <<>>
    /\ scenes["party"] = [lights |-> PartyFixtures, target_lights |-> NoOrchestrator]
    /\ PredictionInit
    /\ scene_cache_size = 1
    /\ running = TRUE
    /\ prediction_audio_queue = <<>>
    /\ scene_prediction_enabled \in BOOLEAN
    /\ scene_prediction_device \in {None, "cable_output"}
    /\ prediction_thread_alive = FALSE
    /\ pred_cb_pc = "idle"
    /\ main_cb_pc = "idle"
    /\ pred_cb_result = "none"
    /\ main_cb_result = "none"
    /\ frames_offered = 0
    /\ frames_enqueued = 0
    /\ frames_dropped = 0
    /\ frames_consumed = 0
    /\ ToggleInit
    /\ LifeInit
    /\ ~test_mode
    /\ channel_frame = <<>>
    /\ encoded = <<>>
    /\ decoded = <<>>
    /\ codec_pc = "frame"
    /\ WireInit
    /\ LockInit
    /\ OutputInit
    /\ TickInit
    /\ closer_pc = [p \in Closers |-> "idle"]
    /\ stream_stop_calls = 0
    /\ stream_close_calls = 0
    /\ NoWorkerYet

WorkersNext ==
    \/ RunStartsStreams
    \/ RunEntersLoop
    \/ HealthCheckStartsThread
    \/ RunLoopExits
    \/ \E w \in WorkerIds : PredictionThreadDies(w)
    \/ \E w \in WorkerIds : PredictionThreadEnds(w)
    \/ \E w \in WorkerIds : PredictionThreadHangs(w)
    \/ WorkersSeeStop

SpecWorkers == WorkersInit /\ [][WorkersNext]_vars

\* stop() and the finally block of run(), statement by statement.
StreamRaceInit == LifecycleInit

StreamRaceNext ==
    \/ StopClearsFlag
    \/ FinallyBegins
    \/ \E p \in Closers : CloserTestsHandle(p)
    \/ \E p \in Closers : CloserCallsStop(p)
    \/ \E p \in Closers : CloserCallsClose(p)
    \/ \E p \in Closers : CloserClearsHandle(p)

SpecStreamRace == StreamRaceInit /\ [][StreamRaceNext]_vars

\* ---------------------------------------------------- audio callback claims

\* What a callback may touch besides its own return: the queue, the running
\* flag, the worker, the frame accounting, the prediction and scene state.
CallbackSharedState ==
    <<running, prediction_audio_queue, scene_prediction_enabled,
      scene_prediction_device, prediction_thread_alive, pred_cb_pc, main_cb_pc,
      frames_offered, frames_enqueued, frames_dropped, frames_consumed,
      predictionVars, sceneVars, toggleVars, lifeVars>>

\* C6: a step in which either audio callback is invoked while the running flag
\* is clear returns at once: the prediction queue and every piece of shared
\* state are the same after the step as before it, and the callback is not
\* left in the middle of a call.
C6_CallbackInertWhenStopped ==
    [][((PredictionCallbackEnter \/ AudioCallbackEnter) /\ ~running)
         => UNCHANGED CallbackSharedState]_vars

\* Both callbacks have been invoked after stop() cleared the flag, with frames
\* still in the queue.
C6_Witness ==
    /\ ~running
    /\ pred_cb_result = "returned_early"
    /\ main_cb_result = "returned_early"
    /\ prediction_audio_queue # <<>>

\* C7: a callback that has reached its put never waits: its put step can
\* always be taken, whether the queue is full or not and whether the worker is
\* alive or not; and a put step taken on a full queue leaves the queue as it
\* was, drops the frame and returns.
C7_CallbackNeverBlocks ==
    /\ [](/\ pred_cb_pc = "put" => ENABLED PredictionCallbackPut
          /\ main_cb_pc = "put" => ENABLED AudioCallbackPut)
    /\ [][((PredictionCallbackPut \/ AudioCallbackPut) /\ QueueFull(prediction_audio_queue))
            => /\ prediction_audio_queue' = prediction_audio_queue
               /\ frames_dropped' = frames_dropped + 1
               /\ frames_enqueued' = frames_enqueued
               /\ pred_cb_pc' = "idle"
               /\ main_cb_pc' = "idle"]_vars

\* A callback has returned after its frame was refused by a full queue whose
\* worker is dead.
C7_Witness ==
    /\ QueueFull(prediction_audio_queue)
    /\ ~prediction_thread_alive
    /\ pred_cb_pc = "idle"
    /\ pred_cb_result = "dropped"

\* No callback is between its running check and its put.
CallbacksIdle == pred_cb_pc = "idle" /\ main_cb_pc = "idle"

\* C8 as stated: once 150 frames have been offered to the initially empty
\* queue of capacity 100, exactly 50 of them have been dropped.
C8_ExactlyFiftyDrops ==
    (frames_offered = 150 /\ CallbacksIdle) => frames_dropped = 50

\* C8: every frame offered is either enqueued or one caught queue.Full, every
\* enqueued frame is in the queue or was taken by the worker, and 150 frames
\* offered leave at most 50 drops, one fewer at most for each frame the worker
\* took, so exactly 50 when the worker took none.
C8_DropAccounting ==
    /\ CallbacksIdle => frames_offered = frames_enqueued + frames_dropped
    /\ frames_enqueued = Len(prediction_audio_queue) + frames_consumed
    /\ (frames_offered = 150 /\ CallbacksIdle)
          => /\ frames_dropped <= 50
             /\ frames_dropped >= 50 - frames_consumed
    /\ (frames_offered = 150 /\ CallbacksIdle /\ frames_consumed = 0)
          => frames_dropped = 50

\* 150 frames have been offered, the worker took none, and there are drops.
C8_Witness ==
    /\ frames_offered = 150
    /\ CallbacksIdle
    /\ frames_consumed = 0
    /\ frames_dropped > 0

\* C23: the prediction queue never holds more frames than its maxsize of 100,
\* whatever the interleaving of the two callbacks, the worker's reads, the
\* worker's death and stop().
C23_QueueBounded ==
    /\ Len(prediction_audio_queue) <= PredictionQueueMaxsize
    /\ frames_enqueued - frames_consumed = Len(prediction_audio_queue)

\* The worker is dead, the queue stands at its maxsize and later frames were
\* dropped.
C23_Witness ==
    /\ ~prediction_thread_alive
    /\ running
    /\ Len(prediction_audio_queue) = PredictionQueueMaxsize
    /\ frames_dropped > 1
    /\ frames_consumed = 1

\* ------------------------------------------------------- toggle mode claims

\* C9: a manual scene selection made in Automatic mode ends in Override mode
\* with the selected scene pinned: the override flag is set, the override
\* scene is the selected one, and the selected scene is the one requested of
\* the scene manager and rendered through its fallback resolution.
C9_SelectionEntersOverride ==
    [][\A new_scene \in Scenes :
          (~override_active /\ SelectScene(new_scene))
            => /\ override_active'
               /\ override_scene' = new_scene
               /\ requested_scene' = new_scene
               /\ current_scene' = EffectiveScene(new_scene, TRUE)]_vars

\* After the display followed the prediction "disco", "hopping_lights" (which
\* no cluster maps to) was selected and is pinned and rendered.
C9_Witness ==
    /\ override_active
    /\ override_scene = "hopping_lights"
    /\ requested_scene = "hopping_lights"
    /\ current_scene = "hopping_lights"
    /\ current_scene_name = "disco"
    /\ predicted_scene = "disco"

\* The predictor publishes a prediction.
PublishStep == \E cluster \in Clusters : PublishPrediction(cluster)

\* C10: while the override is active, a published prediction updates the
\* current predicted scene (the vote over the new cache) and the prediction
\* count, and neither a publication nor the display logic that reads it
\* changes the pinned scene, the scene requested of the scene manager, the
\* scene rendered, or the override flag.
C10_OverrideBlocksPredictions ==
    [][/\ (override_active /\ PublishStep)
           => /\ current_predicted_scene' = MajorityVote(scene_cache')
              /\ latest_prediction' = scene_cache'[Len(scene_cache')]
              /\ prediction_count' = prediction_count + 1
       /\ (override_active /\ (PublishStep \/ ToggleDisplayTick))
           => UNCHANGED <<override_active, override_scene, current_scene_name,
                          requested_scene, current_scene>>]_vars

\* With "party" pinned, the predictor has published "supernova", the display
\* logic has read it, and "party" is still the scene rendered.
C10_Witness ==
    /\ override_active
    /\ override_scene = "party"
    /\ requested_scene = "party"
    /\ current_scene = "party"
    /\ current_predicted_scene = "supernova"
    /\ predicted_scene = "supernova"
    /\ prediction_count >= 2

C22_EnableOverridePinsActive ==
    [][(~override_active /\ ToggleOverride)
        => /\ override_active'
           /\ override_scene' = ToggleActiveScene
           /\ ToggleActiveScene' = ToggleActiveScene
           /\ UNCHANGED <<current_scene_name, requested_scene, current_scene>>]_vars

\* The override pins "supernova", which the loop followed before, while the
\* predictor has moved on to "disco".
C22_Witness ==
    /\ override_active
    /\ override_scene = "supernova"
    /\ current_scene_name = "supernova"
    /\ requested_scene = "supernova"
    /\ predicted_scene = "supernova"
    /\ current_predicted_scene = "disco"

\* C21: the return from toggle mode to oculizer mode leaves no override
\* behind and keeps the scene that is shown; in oculizer mode no override is
\* ever active, the loop's pass is always possible, and every pass made while
\* a prediction exists requests the predicted scene of the scene manager, so
\* that a prediction that changes after the return changes the active scene
\* at the next pass, whether or not the override was active in toggle mode.
C21_ReturnResumesPrediction ==
    /\ [][ReturnToOculizerMode
            => /\ ~override_active'
               /\ override_scene' = None
               /\ UNCHANGED sceneVars]_vars
    /\ [][(OculizerModeTick /\ current_predicted_scene # None)
            => /\ requested_scene' = current_predicted_scene
               /\ current_scene' = EffectiveScene(current_predicted_scene, TRUE)]_vars
    /\ [](ui_mode = "oculizer" => ~override_active /\ override_scene = None)
    /\ []((ui_mode = "oculizer" /\ main_pc = "ui")
            => /\ ENABLED OculizerModeTick
               /\ current_predicted_scene # None
                    => ENABLED (/\ OculizerModeTick
                                /\ requested_scene' = current_predicted_scene))

\* Back in oculizer mode after a visit to toggle mode that showed
\* "supernova": the predictor has published again and the scene manager
\* shows its prediction "disco".
C21_Witness ==
    /\ ui_mode = "oculizer"
    /\ current_scene_name = "supernova"
    /\ prediction_count >= 2
    /\ current_predicted_scene = "disco"
    /\ requested_scene = "disco"
    /\ current_scene = "disco"

\* --------------------------------------------------------- shutdown claims

NoStreamFault == \A e \in log : e.error # "Stream stop() or close() raised"

C15_ShutdownNeverHangs ==
    /\ (main_pc # "ui") ~> (main_pc = "exited")
    /\ [][/\ ((StopJoinPrediction /\ prediction_thread_alive)
               => (LogLine("Prediction thread did not stop within timeout") \in log'))
           /\ ((JoinOculizer /\ oculizer_pc # "dead")
               => (LogLine("Oculizer thread did not stop within timeout") \in log'))]_vars
    /\ [](main_pc = "exited"
            => /\ ~running
               /\ NoStreamFault => prediction_stream = None)

\* The program has left although both the prediction thread and the Oculizer
\* thread hang: both warnings are logged and the stream was closed by stop().
C15_Witness ==
    /\ main_pc = "exited"
    /\ prediction_thread_alive
    /\ worker_pc = "hung"
    /\ oculizer_pc = "hung"
    /\ LogLine("Prediction thread did not stop within timeout") \in log
    /\ LogLine("Oculizer thread did not stop within timeout") \in log
    /\ prediction_stream_released = 1
    /\ prediction_stream = None

\* C18: when the prediction thread has died while the system is running, the
\* health check of the control loop finds it dead and starts it again: unless
\* the shutdown begins or the control loop itself is stuck, a prediction
\* thread is eventually alive again; and every health check that finds the
\* thread dead while running leaves it alive.
C18_DeadWorkerRestarted ==
    /\ (scene_prediction_enabled /\ running /\ ~prediction_thread_alive)
          ~> (prediction_thread_alive \/ ~running \/ oculizer_pc = "hung")
    /\ [][(UpdateScenePrediction /\ running /\ ~prediction_thread_alive)
             => (prediction_thread_alive' /\ worker_pc' = "wait")]_vars

\* The prediction thread died once and is alive again while the system runs.
C18_Witness ==
    /\ worker_deaths = 1
    /\ running
    /\ prediction_thread_alive
    /\ worker_pc = "wait"
    /\ main_pc = "ui"

\* C19: a failure of the inference on one chunk is absorbed by the prediction
\* thread: the thread stays alive and goes back to wait for the next chunk,
\* nothing is published for the failed chunk (count, cluster, predicted scene
\* and smoothing cache stay), and the control loop, the main thread and the
\* scene state are not touched.
C19_InferenceFailureAbsorbed ==
    [][WorkerInferenceFails
        => /\ prediction_thread_alive'
           /\ worker_pc' = "wait"
           /\ UNCHANGED <<predictionVars, sceneVars, toggleVars, oculizer_pc,
                          main_pc, running, dmx_frames_sent>>]_vars

\* After a failed inference the thread took the next chunk and published its
\* prediction, while the control loop kept sending DMX frames.
C19_Witness ==
    /\ LogLine("Error in prediction processing") \in log
    /\ prediction_count = 1
    /\ prediction_thread_alive
    /\ worker_deaths = 0
    /\ frames_consumed = 2
    /\ dmx_frames_sent = 1

\* C20: in test mode no DMX action is ever performed: no frame or command is
\* sent, no controller exists, none is closed, and no DMX path is entered
\* far enough to fail.
C20_TestModeSendsNoDmx ==
    test_mode
      => /\ dmx_frames_sent = 0
         /\ dmx_controller = None
         /\ dmx_released = 0
         /\ \A e \in log : e.error \notin {"Error sending DMX frame",
                                            "Error turning off lights"}
         /\ \A e \in log : ~(e.error = "Error in stop()" /\ e.resource = "DMX controller")

\* A whole test-mode session: a prediction was published, the program was
\* quit and has left, and the control loop has ended.
C20_Witness ==
    /\ test_mode
    /\ prediction_count = 1
    /\ main_pc = "exited"
    /\ oculizer_pc = "dead"
    /\ stop_calls = 2

\* ------------------------------------------------------- DMX output claims

\* The pieces of the wire from position i on, as long as they are the
\* consecutive pieces of one frame.
WholeFramesFrom(i) ==
    \/ i > Len(wire)
    \/ /\ wire[i][2] = 1
       /\ \A k \in 1..(WireChunksPerFrame - 1) :
            i + k <= Len(wire) => wire[i + k] = <<wire[i][1], k + 1>>

\* C16: however the two threads interleave their attempts, at most one write
\* is in flight at any time and it is the lock holder's; the wire carries the
\* pieces of one frame after the other, each frame's pieces in order and
\* unbroken by a piece of another frame.
C16_AtMostOneWriter ==
    /\ Cardinality({w \in Writers : writer_pc[w] = "write"}) <= 1
    /\ \A w \in Writers : writer_pc[w] = "write" <=> write_lock = w
    /\ \A i \in 1..Len(wire) :
         (i - 1) % WireChunksPerFrame = 0 => WholeFramesFrom(i)
    /\ \A i \in 1..Len(wire) :
         wire[i][2] = ((i - 1) % WireChunksPerFrame) + 1

\* One thread is in the middle of its frame while the other waits for the
\* lock with a frame of its own, after an earlier frame went out whole.
C16_Witness ==
    /\ writer_pc["oculizer_thread"] = "write"
    /\ writer_pos["oculizer_thread"] = 1
    /\ writer_pc["main_thread"] = "acquire"
    /\ Len(wire) = WireChunksPerFrame + 1
    /\ wire[1][1] = 1
    /\ writer_frame["main_thread"] = 2
    /\ writer_frame["oculizer_thread"] = 3

\* C17: decoding the message encoded from a frame of 512 channel values gives
\* back the same 512 values, whatever the values (those of the start and end
\* bytes included); the message is the frame between a five-byte head and the
\* end byte.
C17_CodecRoundTrip ==
    /\ codec_pc # "frame"
         => /\ Len(encoded) = DmxChannels + 6
            /\ encoded[1] = START_BYTE
            /\ encoded[Len(encoded)] = END_BYTE
            /\ DeclaredLength(encoded) = DmxChannels + 1
            /\ \A b \in 1..Len(encoded) : encoded[b] \in 0..255
    /\ codec_pc = "decoded"
         => /\ decoded = channel_frame
            /\ Len(decoded) = DmxChannels

\* A frame whose first channel holds the value of the end byte and whose last
\* channel holds the value of the start byte went through the codec.
C17_Witness ==
    /\ codec_pc = "decoded"
    /\ channel_frame[1] = END_BYTE
    /\ channel_frame[DmxChannels] = START_BYTE
    /\ channel_frame[2] = 255
    /\ Len(decoded) = DmxChannels
    /\ decoded[1] = END_BYTE

\* ---------------------------------------------------- prediction lock claims

\* C24: the prediction thread holds prediction_lock exactly while it stands in
\* the state update, never during the inference; a reader that comes for the
\* lock while the inference runs gets it at once.
C24_NoLockDuringInference ==
    /\ publisher_pc = "infer" => prediction_lock # "prediction_thread"
    /\ prediction_lock = "prediction_thread"
         <=> publisher_pc \in {"publish", "publish_rest", "release"}
    /\ prediction_lock = "main_loop" <=> reader_pc \in {"read", "read_rest", "release"}
    /\ (reader_pc = "acquire" /\ publisher_pc \in {"wait", "infer", "acquire"})
         => ENABLED ReaderAcquire

\* The main loop reads the prediction state under the lock while the second
\* inference is running.
C24_Witness ==
    /\ publisher_pc = "infer"
    /\ prediction_count = 1
    /\ reader_pc = "read"
    /\ prediction_lock = "main_loop"

\* ------------------------------------------------------ worker loss claims

\* C25: the death of the prediction thread, a failed restart and a restart
\* leave the published prediction alone: while the thread is dead no step
\* changes the predicted scene, the latest prediction, the cluster or the
\* history, and once a prediction was published the predicted scene is the
\* last published one, never empty.
C25_LastKnownPrediction ==
    /\ [][(~prediction_thread_alive \/ ~prediction_thread_alive')
            => UNCHANGED <<current_predicted_scene, latest_prediction,
                           current_cluster, scene_cache>>]_vars
    /\ [](prediction_count > 0
            => /\ current_predicted_scene # None
               /\ current_predicted_scene = raw_predictions[Len(raw_predictions)])

\* The thread is dead after a published prediction, a restart has failed,
\* the system still runs and the predicted scene is the published "disco".
C25_Witness ==
    /\ ~prediction_thread_alive
    /\ running
    /\ worker_deaths = 1
    /\ restart_failures = 1
    /\ prediction_count = 1
    /\ current_predicted_scene = "disco"
    /\ oculizer_pc = "top"

\* C26: once the running flag is clear, a prediction thread that waits on its
\* queue can always leave its loop, with the queue empty or not, and every
\* live prediction thread has eventually ended, unless it is stuck inside an
\* inference.
C26_WorkerLeavesLoop ==
    /\ (~running /\ prediction_thread_alive)
          ~> (~prediction_thread_alive \/ worker_pc = "hung")
    /\ []((~running /\ prediction_thread_alive /\ worker_pc = "wait")
            => ENABLED WorkerLoopExit)

\* The prediction thread has ended after stop() although no audio frame was
\* ever put on the queue.
C26_Witness ==
    /\ ~running
    /\ ~prediction_thread_alive
    /\ worker_deaths = 0
    /\ frames_offered = 0
    /\ prediction_audio_queue = <<>>
    /\ main_pc = "stop_stream"
    /\ LogLine("Prediction thread did not stop within timeout") \notin log

\* ------------------------------------------------------- teardown claims

\* The thread joined by stop() has ended, or the join has given up on it.
JoinReturned == ~prediction_thread_alive \/ worker_pc = "hung"

\* stop() has tried to close the prediction stream: the handle is None, or
\* the stream's stop() or close() raised inside stop().
StreamCloseTried ==
    \/ prediction_stream = None
    \/ \E e \in log : e = [error |-> "Stream stop() or close() raised",
                            resource |-> "stop()", first_call |-> e.first_call]

StopReturned == stop_calls >= 1 /\ main_pc \in {"join", "cleanup", "exited"}

\* Statement of C28 as the spec has it: after stop() every handle is None.
C28_AllHandlesNone ==
    StopReturned => (prediction_stream = None /\ dmx_controller = None)

\* C28: after stop() has returned, the handle of the prediction stream is
\* None if its stop() and close() went through and is kept, still open, if
\* one of them raised; the handle of the DMX controller is never set to None:
\* outside test mode it is the closed controller.
C28_HandlesAfterStop ==
    /\ [](StopReturned
            => /\ prediction_stream \in {None, "open"}
               /\ prediction_stream = "open" => ~NoStreamFault
               /\ NoStreamFault => prediction_stream = None
               /\ dmx_controller = IF test_mode THEN None ELSE "closed")
    /\ [][(StopCloseStream /\ StreamFault("stop()") \in log' /\ prediction_stream = "open"
             /\ prediction_stream_released' = prediction_stream_released)
            => prediction_stream' = "open"]_vars

\* The program has left after two stop() calls in which the stream's close
\* raised each time: the stream handle is still the open stream, the DMX
\* controller handle the closed controller.
C28_Witness ==
    /\ main_pc = "exited"
    /\ stop_calls = 2
    /\ prediction_stream = "open"
    /\ prediction_stream_released = 0
    /\ dmx_controller = "closed"
    /\ \E e \in log : e.error = "Stream stop() or close() raised" /\ ~e.first_call

\* ----------------------------------------------------------- framing claim

\* C29: the message encoded from a frame is, byte for byte, the start byte
\* 0x7E, the "send DMX" label, the length low byte first then high byte, the
\* DMX start code 0x00, the 512 channel values of the frame in order, and the
\* end byte 0xE7; the length is that of the start code plus the channels.
C29_WireFraming ==
    codec_pc # "frame"
      => /\ encoded[1] = START_BYTE
         /\ encoded[2] = SEND_DMX_LABEL
         /\ encoded[3] = (DmxChannels + 1) % 256
         /\ encoded[4] = (DmxChannels + 1) \div 256
         /\ encoded[3] + 256 * encoded[4] = 1 + Len(channel_frame)
         /\ encoded[5] = DMX_START_CODE
         /\ Len(channel_frame) = DmxChannels
         /\ \A c \in 1..DmxChannels : encoded[5 + c] = channel_frame[c]
         /\ encoded[DmxChannels + 6] = END_BYTE
         /\ Len(encoded) = DmxChannels + 6

\* A frame of zeros with 255 on its probe channels has been encoded: the
\* length bytes are 1 and 2, low byte first, and the message has 518 bytes.
C29_Witness ==
    /\ codec_pc = "encoded"
    /\ channel_frame[2] = 0
    /\ channel_frame[257] = 255
    /\ encoded[3] = 1
    /\ encoded[4] = 2
    /\ encoded[262] = 255
    /\ Len(encoded) = 518

\* ------------------------------------------------- write failure claim

\* C30: a failed serial write never ends the control loop: the loop is
\* running in every state, the failure is handled back into the loop, and
\* while rendering is not suspended the next tick attempts a write again;
\* automatic rendering is suspended only once the failures in a row exceed
\* the configured threshold.
C30_WriteFailureAbsorbed ==
    /\ [](output_loop = "running")
    /\ [][OutputHandleFailure => (output_loop' = "running" /\ output_pc' = "tick")]_vars
    /\ []((output_pc = "tick" /\ ~rendering_suspended /\ output_ticks < MaxOutputTicks)
            => ENABLED (OutputTick /\ output_pc' = "write"))
    /\ [](output_pc = "write" => ENABLED OutputWriteSucceeds)
    /\ [](rendering_suspended => consecutive_failures > FailureThreshold)
    /\ [][(~rendering_suspended /\ rendering_suspended')
            => (OutputHandleFailure /\ consecutive_failures = FailureThreshold + 1)]_vars

\* After a good write, failures in a row went one beyond the threshold:
\* rendering is suspended, and the loop, still running, has ticked on since.
C30_Witness ==
    /\ rendering_suspended
    /\ output_loop = "running"
    /\ consecutive_failures = FailureThreshold + 1
    /\ writes_attempted = FailureThreshold + 2
    /\ output_ticks > writes_attempted
    /\ output_pc = "tick"

\* ------------------------------------------------------ fallback chain claim

\* C34: the fallback mapping is applied once per scene change: when the scene
\* last requested maps to F and F itself maps to G, the scene applied is F,
\* and it is not G unless G is F.
C34_SingleLevelFallback ==
    ( /\ requested_scene \in DOMAIN fallback_mappings
      /\ fallback_mappings[requested_scene] \in DOMAIN fallback_mappings )
        => /\ current_scene = fallback_mappings[requested_scene]
           /\ (fallback_mappings[fallback_mappings[requested_scene]]
                  # fallback_mappings[requested_scene])
                => current_scene # fallback_mappings[fallback_mappings[requested_scene]]

\* A scene S was requested under a mapping S -> F, F -> G with S, F and G
\* three different scenes, and F is the scene applied.
C34_Witness ==
    /\ requested_scene \in DOMAIN fallback_mappings
    /\ fallback_mappings[requested_scene] \in DOMAIN fallback_mappings
    /\ Cardinality({requested_scene, fallback_mappings[requested_scene],
                     fallback_mappings[fallback_mappings[requested_scene]]}) = 3
    /\ current_scene = fallback_mappings[requested_scene]

\* ------------------------------------------------- compatible scene claim

\* Statement of C35 as the spec has it: every fixture a compatible scene
\* references is a fixture of the profile.
C35_CompatibleUsesOnlyProfileFixtures ==
    available_fixtures.given =>
        \A s \in Scenes :
            scene_compatibility[s]
                => GetSceneFixtures(scenes[s]) \subseteq available_fixtures.names

\* C35: with a profile, a scene classified compatible references at least
\* one fixture of the profile, and a scene whose fixtures are all fixtures of
\* the profile (at least one) is classified compatible. A compatible scene
\* may reference fixtures the profile does not have.
C35_CompatibleUsesSomeProfileFixture ==
    available_fixtures.given =>
        \A s \in Scenes :
            /\ scene_compatibility[s]
                  => \E f \in GetSceneFixtures(scenes[s]) : f \in available_fixtures.names
            /\ ( /\ GetSceneFixtures(scenes[s]) # {}
                 /\ GetSceneFixtures(scenes[s]) \subseteq available_fixtures.names )
                  => scene_compatibility[s]

\* Under the mobile profile the scene disco, which references the rgb
\* fixtures and the pinspot that the profile lacks, is compatible and has been
\* applied; a scene referencing only profile fixtures is compatible too.
C35_Witness ==
    /\ profile_name = "mobile"
    /\ scene_compatibility["disco"]
    /\ "pinspot" \in GetSceneFixtures(scenes["disco"])
    /\ "pinspot" \notin available_fixtures.names
    /\ scene_compatibility["supernova"]
    /\ GetSceneFixtures(scenes["supernova"]) \subseteq available_fixtures.names
    /\ requested_scene = "disco"
    /\ current_scene = "disco"

\* ------------------------------------------------- override state claim

\* C36: in toggle mode, whatever Ctrl+O presses and manual selections came
\* before, the override is active exactly when an override scene is set: an
\* active override holds a scene of the scene set, an inactive one None.
C36_OverrideActiveIffSceneSet ==
    /\ override_active <=> (override_scene # None)
    /\ override_active => override_scene \in Scenes
    /\ ~override_active => override_scene = None

\* A manual selection of orb_cycle, Ctrl+O off with no prediction yet, and
\* Ctrl+O on again: the override is active on the scene the loop held.
C36_Witness ==
    /\ override_active
    /\ override_scene = "party"
    /\ current_scene_name = "party"
    /\ requested_scene = "orb_cycle"
    /\ predicted_scene = None

\* ------------------------------------------------ queue feeding claims

\* C33: the main audio callback goes on to its put exactly when scene
\* prediction is enabled and no separate prediction device is configured;
\* with a prediction device only the prediction callback puts. So the two
\* callbacks never both feed the queue, and in each mode the callback of that
\* mode can always be invoked and feed it while the program runs.
C33_QueueFedByStreamMode ==
    /\ main_cb_pc = "put" => (scene_prediction_enabled /\ scene_prediction_device = None)
    /\ pred_cb_pc = "put" => scene_prediction_device # None
    /\ ~(main_cb_pc = "put" /\ pred_cb_pc = "put")
    /\ main_cb_result \in {"enqueued", "dropped"} => scene_prediction_device = None
    /\ pred_cb_result \in {"enqueued", "dropped"} => scene_prediction_device # None
    /\ (running /\ main_cb_pc = "idle" /\ frames_offered < MaxFrames)
         => ( (scene_prediction_enabled /\ scene_prediction_device = None)
                <=> ENABLED (AudioCallbackEnter /\ main_cb_pc' = "put") )
    /\ (running /\ pred_cb_pc = "idle" /\ frames_offered < MaxFrames)
         => ( scene_prediction_device # None
                <=> ENABLED (PredictionCallbackEnter /\ pred_cb_pc' = "put") )

\* Single-stream mode: the main audio callback has put frames into the
\* queue and returned, and the prediction callback was never invoked.
C33_Witness ==
    /\ scene_prediction_enabled
    /\ scene_prediction_device = None
    /\ main_cb_pc = "idle"
    /\ main_cb_result = "enqueued"
    /\ pred_cb_result = "none"
    /\ frames_enqueued >= 2
    /\ frames_enqueued = frames_offered

\* C37: once stop() has cleared the running flag, no frame is put into the
\* prediction queue any more.
C37_NoEnqueueAfterClear ==
    [][~running => frames_enqueued' = frames_enqueued]_vars

\* ------------------------------------------------ concurrent close claim

\* C38: with stop() and the finally block of run() running side by side,
\* stop() and close() are each called at most once on the prediction stream.
C38_StreamClosedOnce ==
    /\ stream_stop_calls <= 1
    /\ stream_close_calls <= 1

\* ------------------------------------------------ single worker claim

\* C39: at most one prediction thread is alive at any time; a thread is
\* started, by the dual-stream path, the single-stream path or the health
\* check, only when no prediction thread is alive, and the thread held in
\* self.prediction_thread is the one alive, if any.
C39_AtMostOneWorker ==
    /\ [](Cardinality(LiveWorkers) <= 1)
    /\ [](LiveWorkers \subseteq {prediction_thread})
    /\ [](prediction_thread_alive <=> LiveWorkers # {})
    /\ [][prediction_thread' # prediction_thread
            => (LiveWorkers = {} /\ LiveWorkers' = {prediction_thread'})]_vars

\* The health check has replaced two dead prediction threads in
\* single-stream mode: the third thread is the only one alive, and stuck.
C39_Witness ==
    /\ scene_prediction_device = None
    /\ worker_threads[1] = "died"
    /\ worker_threads[2] = "died"
    /\ worker_threads[3] = "hung"
    /\ prediction_thread = 3
    /\ prediction_thread_alive
    /\ run_pc = "loop"

\* ------------------------------------------------ atomic publish claim

C31_TickSnapshot ==
    /\ [](tick_pc = "write"
            => tick_frame = RenderFrame(handed.frame, scenes[tick_scene], tick_audio))
    /\ [](handed.tick > 0
            => handed.frame = RenderFrame(handed.before, scenes[handed.scene], handed.audio))
    /\ [][(prediction_count' # prediction_count
             \/ current_predicted_scene' # current_predicted_scene)
            => (tick_scene' = tick_scene /\ tick_frame' = tick_frame /\ handed' = handed)]_vars
    /\ [][(tick_count' = tick_count + 1 /\ FollowsPrediction(current_predicted_scene))
            => (tick_scene' = EffectiveScene(current_predicted_scene, TRUE))]_vars
    /\ []((tick_pc = "sleep" /\ tick_count < MaxTicks
             /\ prediction_lock # "prediction_thread") => ENABLED TickBegin)
    /\ [](tick_pc = "render" => ENABLED TickRender)
    /\ [](tick_pc = "write" => ENABLED TickWrite)
    /\ [](publisher_pc = "infer" => prediction_lock # "prediction_thread")

\* The second pass, in automatic mode, has built its frame from the scene
\* of the prediction published during the first pass, while the worker has
\* published another scene during the second and is inferring again or done.
C31_Witness ==
    /\ tick_pc = "write"
    /\ tick_count = 2
    /\ ~override_active
    /\ handed.tick = 1
    /\ handed.predictions = 0
    /\ tick_predictions = 1
    /\ prediction_count = 2
    /\ tick_scene = EffectiveScene(raw_predictions[1], TRUE)
    /\ current_predicted_scene # tick_scene
    /\ handed.scene # tick_scene
    /\ tick_frame # handed.frame

\* C32: every frame handed to the DMX controller, and every frame about to
\* be handed over, has a value for each channel of each fixture of the
\* profile, each value in 0..255, and each channel of a fixture the scene of
\* the frame does not reference is at the off value.
C32_FrameCoversProfile ==
    \A fr \in {r \in {[scene |-> handed.scene, frame |-> handed.frame, on |-> handed.tick > 0],
                        [scene |-> tick_scene, frame |-> tick_frame, on |-> tick_pc = "write"]} :
                  r.on} :
        /\ DOMAIN fr.frame = AddressSpace(available_fixtures.names)
        /\ \A c \in DOMAIN fr.frame :
              /\ fr.frame[c] \in 0..MaxChannelValue
              /\ (c[1] \notin GetSceneFixtures(scenes[fr.scene])) => (fr.frame[c] = OffValue)

\* The frame handed over last turns off a channel that was lit in the frame
\* before it, the scene having changed to one that does not reference the
\* fixture, and lights another channel.
C32_Witness ==
    /\ handed.tick = 2
    /\ \E c \in DOMAIN handed.frame :
          /\ handed.before[c] # OffValue
          /\ c[1] \notin GetSceneFixtures(scenes[handed.scene])
          /\ handed.frame[c] = OffValue
    /\ \E d \in DOMAIN handed.frame : handed.frame[d] # OffValue

====
